---- MODULE Spec2Model ----
(***************************************************************************)
(* A model of dredispy: the keyspace with its TTL heap (command.DB,        *)
(* command.Storage), the non-pubsub command handlers                       *)
(* (command.CommandHandler), the dispatcher                                *)
(* (command.CommandProcessor.process_command) and the connection loop      *)
(* (server.RedisServer.connection_handler).                                *)
(*                                                                         *)
(* Byte strings are sequences of one-character strings; b'' is <<>>.       *)
(* An optional value (Python None or a value) is <<>> or <<x>>.            *)
(* Instants and durations are integers, in milliseconds.                   *)
(***************************************************************************)
EXTENDS Integers, Sequences, FiniteSets, TLC

(***************************************************************************)
(* Bounds of the model.                                                    *)
(***************************************************************************)
\* how many times the clock advances
MaxTicks == 2
\* how many TTL entries one DB's counter hands out
MaxCount == 2

\* the most writes that wait in the write pool
MaxPool == 2

(***************************************************************************)
(* Optional values and dicts.                                              *)
(***************************************************************************)
None == <<>>

Some(x) == <<x>>

DictGet(d, k) == IF k \in DOMAIN d THEN Some(d[k]) ELSE None

DictSet(d, k, v) == [x \in (DOMAIN d) \cup {k} |-> IF x = k THEN v ELSE d[x]]

DictPop(d, k) == [x \in (DOMAIN d) \ {k} |-> d[x]]

EmptyDict == [x \in {} |-> <<>>]

(***************************************************************************)
(* Byte strings used as inputs.                                            *)
(***************************************************************************)
Keys == {<<>>, <<"a">>}

Values == {<<"1">>, <<"2">>}

(***************************************************************************)
(* protocol: the response values and the structured errors.                *)
(***************************************************************************)
RedisString(data) == [type |-> "String", data |-> data]

RedisBulkString(data) == [type |-> "BulkString", data |-> data]

RedisNullBulkString == [type |-> "NullBulkString", data |-> <<>>]

RedisInteger(n) == [type |-> "Integer", data |-> n]

RedisArray(items) == [type |-> "Array", data |-> items]

RedisError(msg) == [type |-> "Error", data |-> <<"ERR", msg>>]

CommandSyntaxError == RedisError("syntax error")

WrongNumberOfArgumentsError(command) ==
    [type |-> "Error", data |-> <<"ERR", "wrong number of arguments", command>>]

\* an exception that is not a RedisError, leaving the handler
Raised(name) == [type |-> "Raised", data |-> name]

OK == RedisString(<<"O", "K">>)

\* r = x for two results, comparing the data only of results of one type
SameResult(r, x) == r.type = x.type /\ r.data = x.data

(***************************************************************************)
(* command.DB: kv is a dict; expiration_pq is a heap of entries            *)
(* [expires_at, count, key], kept here as the set of its entries, its top  *)
(* being the least (expires_at, count); _expiration_key_finder maps a key  *)
(* to its entry, which it shares with the heap.                            *)
(***************************************************************************)
NumDBs == 16

_removed_sentinel == <<"_removed_sentinel">>

DB(index) ==
    [index |-> index,
     kv |-> EmptyDict,
     expiration_pq |-> {},
     _expiration_key_finder |-> EmptyDict,
     _expiration_counter |-> 0]

EntryLess(e, f) ==
    \/ e.expires_at < f.expires_at
    \/ e.expires_at = f.expires_at /\ e.count < f.count

\* expiration_pq[0]
HeapTop(pq) == CHOOSE e \in pq : \A f \in pq \ {e} : EntryLess(e, f)

\* is_key_active with > for >=
is_key_active_strict(db, key, now) ==
    LET entry == DictGet(db._expiration_key_finder, key)
    IN  IF entry = None THEN TRUE
        ELSE IF entry[1].expires_at > now THEN TRUE
        ELSE FALSE

is_key_active(db, key, now) ==
    LET entry == DictGet(db._expiration_key_finder, key)
    IN  IF entry = None THEN TRUE
        ELSE IF entry[1].expires_at >= now THEN TRUE
        ELSE FALSE

get_active_key(db, key, now) ==
    LET value == DictGet(db.kv, key)
    IN  IF value = None THEN None
        ELSE IF ~is_key_active(db, key, now) THEN None
        ELSE value

\* remove_key_from_expiration that leaves the entry of the key in place
remove_key_from_expiration_kept(db, key) == db

remove_key_from_expiration(db, key) ==
    LET entry == DictGet(db._expiration_key_finder, key)
    IN  IF entry = None THEN db
        ELSE [db EXCEPT
                !._expiration_key_finder = DictPop(@, key),
                !.expiration_pq =
                    {IF e.count = entry[1].count
                        THEN [e EXCEPT !.key = _removed_sentinel]
                        ELSE e : e \in @}]

\* set_expiry_for_key that leaves the earlier entry of the key in the heap
set_expiry_for_key_twice(db, key, milliseconds, now) ==
    LET expires_at == now + milliseconds
        count == db._expiration_counter
    IN  [db EXCEPT
            !._expiration_counter = count + 1,
            !._expiration_key_finder =
                DictSet(@, key, [expires_at |-> expires_at, count |-> count]),
            !.expiration_pq =
                @ \cup {[expires_at |-> expires_at, count |-> count, key |-> key]}]

set_expiry_for_key(db, key, milliseconds, now) ==
    LET expires_at == now + milliseconds
        db1 == IF key \in DOMAIN db._expiration_key_finder
                  THEN remove_key_from_expiration(db, key)
                  ELSE db
        count == db1._expiration_counter
        entry == [expires_at |-> expires_at, count |-> count, key |-> key]
    IN  [db1 EXCEPT
            !._expiration_counter = count + 1,
            !._expiration_key_finder =
                DictSet(@, key, [expires_at |-> expires_at, count |-> count]),
            !.expiration_pq = @ \cup {entry}]

\* the popped key (None when the heap ran empty), the DB afterwards, and
\* whether the del of the finder entry raised KeyError
RECURSIVE pop_expiration_key(_)
pop_expiration_key(db) ==
    IF db.expiration_pq = {}
    THEN [key |-> None, db |-> db, raised |-> FALSE]
    ELSE LET e == HeapTop(db.expiration_pq)
             db1 == [db EXCEPT !.expiration_pq = @ \ {e}]
         IN  IF e.key # _removed_sentinel
             THEN [key |-> Some(e.key),
                   db |-> [db1 EXCEPT !._expiration_key_finder = DictPop(@, e.key)],
                   raised |-> e.key \notin DOMAIN db1._expiration_key_finder]
             ELSE pop_expiration_key(db1)

(***************************************************************************)
(* command.Storage                                                         *)
(***************************************************************************)
Storage == [i \in 0..(NumDBs - 1) |-> DB(i)]

\* the while loop of process_periodic_task on one DB
RECURSIVE ExpireDB(_, _)
ExpireDB(db, now) ==
    IF db.expiration_pq # {} /\ HeapTop(db.expiration_pq).expires_at < now
    THEN LET r == pop_expiration_key(db)
         IN  IF r.raised THEN [db |-> r.db, raised |-> TRUE]
             ELSE IF r.key = None \/ r.key[1] = <<>>
             THEN ExpireDB(r.db, now)
             ELSE ExpireDB([r.db EXCEPT !.kv = DictPop(@, r.key[1])], now)
    ELSE [db |-> db, raised |-> FALSE]

\* the DBs after the for loop, which an exception leaves at the DB it is in
process_periodic_task(dbs, now) ==
    LET expired == [i \in DOMAIN dbs |-> ExpireDB(dbs[i], now)]
        raising == {i \in DOMAIN dbs : expired[i].raised}
        first_raise ==
            IF raising # {}
            THEN CHOOSE i \in raising : \A j \in raising : i <= j
            ELSE NumDBs
    IN  [dbs |-> [i \in DOMAIN dbs |->
                    IF i <= first_raise THEN expired[i].db ELSE dbs[i]],
         raised |-> raising # {}]

(***************************************************************************)
(* command.ensure_int: int() of a byte string, which strips whitespace,    *)
(* takes a sign and single underscores between digits.                     *)
(***************************************************************************)
Digits == <<"0", "1", "2", "3", "4", "5", "6", "7", "8", "9">>

IsDigit(c) == \E i \in 1..10 : Digits[i] = c

DigitValue(c) == (CHOOSE i \in 1..10 : Digits[i] = c) - 1

Whitespace == {" ", "\t", "\n", "\r"}

RECURSIVE LStrip(_)
LStrip(v) == IF v # <<>> /\ Head(v) \in Whitespace THEN LStrip(Tail(v)) ELSE v

RECURSIVE RStrip(_)
RStrip(v) ==
    IF v # <<>> /\ v[Len(v)] \in Whitespace
    THEN RStrip(SubSeq(v, 1, Len(v) - 1))
    ELSE v

RECURSIVE DigitsValue(_, _)
DigitsValue(v, acc) ==
    IF v = <<>> THEN acc
    ELSE IF Head(v) = "_" THEN DigitsValue(Tail(v), acc)
    ELSE DigitsValue(Tail(v), 10 * acc + DigitValue(Head(v)))

IsIntBody(v) ==
    /\ v # <<>>
    /\ IsDigit(v[1])
    /\ IsDigit(v[Len(v)])
    /\ \A i \in 1..Len(v) : IsDigit(v[i]) \/ v[i] = "_"
    /\ \A i \in 1..(Len(v) - 1) : ~(v[i] = "_" /\ v[i + 1] = "_")

\* [ok, value]: ok is FALSE where int() raises ValueError
ensure_int(v) ==
    LET t == RStrip(LStrip(v))
        signed == t # <<>> /\ Head(t) \in {"-", "+"}
        body == IF signed THEN Tail(t) ELSE t
    IN  IF ~IsIntBody(body) THEN [ok |-> FALSE, value |-> 0]
        ELSE [ok |-> TRUE,
              value |-> IF signed /\ Head(t) = "-"
                           THEN 0 - DigitsValue(body, 0)
                           ELSE DigitsValue(body, 0)]

NotAnInteger == RedisError("value is not an integer or out of range")

(***************************************************************************)
(* command.CommandHandler.  A handler gives [result, dbs, connection]:     *)
(* what it returns or raises, and the storage and the connection as it     *)
(* leaves them.  args[i + 1] here is Python's args[i].                     *)
(***************************************************************************)
Outcome(result, dbs, connection) ==
    [result |-> result, dbs |-> dbs, connection |-> connection]

\* self.storage.dbs[connection.db_index] exists
HasDB(dbs, connection) == connection.db_index \in DOMAIN dbs

\* _get_db that takes DB 0 whatever the connection has selected
_get_db_zero(dbs, connection) == dbs[0]

_get_db(dbs, connection) == dbs[connection.db_index]

cmd_ping(command, args, now, connection, dbs) ==
    IF Len(args) = 0 THEN Outcome(RedisString(<<"P", "O", "N", "G">>), dbs, connection)
    ELSE IF Len(args) = 1 THEN Outcome(RedisString(args[1]), dbs, connection)
    ELSE Outcome(WrongNumberOfArgumentsError(command), dbs, connection)

cmd_select(command, args, now, connection, dbs) ==
    IF Len(args) # 1 THEN Outcome(WrongNumberOfArgumentsError(command), dbs, connection)
    ELSE LET db_index == ensure_int(args[1])
         IN  IF ~db_index.ok THEN Outcome(NotAnInteger, dbs, connection)
             ELSE IF db_index.value < 0 \/ db_index.value > NumDBs
             THEN Outcome(RedisError("invalid DB index"), dbs, connection)
             ELSE Outcome(OK, dbs, [connection EXCEPT !.db_index = db_index.value])

\* cmd_get that answers with a Simple String, as cmd_mget does
cmd_get_simple(command, args, now, connection, dbs) ==
    IF Len(args) # 1 THEN Outcome(WrongNumberOfArgumentsError(command), dbs, connection)
    ELSE IF ~HasDB(dbs, connection) THEN Outcome(Raised("IndexError"), dbs, connection)
    ELSE LET value == get_active_key(_get_db(dbs, connection), args[1], now)
         IN  IF value = None THEN Outcome(RedisNullBulkString, dbs, connection)
             ELSE Outcome(RedisString(value[1]), dbs, connection)

cmd_get(command, args, now, connection, dbs) ==
    IF Len(args) # 1 THEN Outcome(WrongNumberOfArgumentsError(command), dbs, connection)
    ELSE IF ~HasDB(dbs, connection) THEN Outcome(Raised("IndexError"), dbs, connection)
    ELSE LET value == get_active_key(_get_db(dbs, connection), args[1], now)
         IN  IF value = None THEN Outcome(RedisNullBulkString, dbs, connection)
             ELSE Outcome(RedisBulkString(value[1]), dbs, connection)

\* the option loop of cmd_set from index i on; error is None or the
\* exception that ends the loop
RECURSIVE ParseSetOptions(_, _, _)
ParseSetOptions(args, i, st) ==
    IF ~(i < Len(args)) THEN st
    ELSE IF args[i + 1] = <<"n", "x">>
    THEN ParseSetOptions(args, i + 1, [st EXCEPT !.nx = TRUE])
    ELSE IF args[i + 1] = <<"x", "x">>
    THEN ParseSetOptions(args, i + 1, [st EXCEPT !.xx = TRUE])
    ELSE IF args[i + 1] = <<"e", "x">>
    THEN IF i >= Len(args) THEN [st EXCEPT !.error = Some(CommandSyntaxError)]
         ELSE IF ~(i + 1 < Len(args)) THEN [st EXCEPT !.error = Some(Raised("IndexError"))]
         ELSE LET n == ensure_int(args[i + 2])
              IN  IF ~n.ok THEN [st EXCEPT !.error = Some(NotAnInteger)]
                  ELSE ParseSetOptions(args, i + 2, [st EXCEPT !.ex = Some(n.value)])
    ELSE IF args[i + 1] = <<"p", "x">>
    THEN IF i >= Len(args) THEN [st EXCEPT !.error = Some(CommandSyntaxError)]
         ELSE IF ~(i + 1 < Len(args)) THEN [st EXCEPT !.error = Some(Raised("IndexError"))]
         ELSE LET n == ensure_int(args[i + 2])
              IN  IF ~n.ok THEN [st EXCEPT !.error = Some(NotAnInteger)]
                  ELSE ParseSetOptions(args, i + 2, [st EXCEPT !.px = Some(n.value)])
    ELSE ParseSetOptions(args, i + 1, st)

\* Python's truth of an optional integer: neither None nor 0
Truthy(x) == x # None /\ x[1] # 0

cmd_set(command, args, now, connection, dbs) ==
    IF Len(args) < 2 THEN Outcome(WrongNumberOfArgumentsError(command), dbs, connection)
    ELSE IF ~HasDB(dbs, connection) THEN Outcome(Raised("IndexError"), dbs, connection)
    ELSE
    LET db == _get_db(dbs, connection)
        key == args[1]
        value == args[2]
        opts == ParseSetOptions(args, 2,
                    [nx |-> FALSE, xx |-> FALSE, ex |-> None, px |-> None,
                     error |-> None])
        key_exists == get_active_key(db, key, now) # None
        db1 == [db EXCEPT !.kv = DictSet(@, key, value)]
        db2 == IF Truthy(opts.px) THEN set_expiry_for_key(db1, key, opts.px[1], now)
               ELSE IF Truthy(opts.ex)
               THEN set_expiry_for_key(db1, key, opts.ex[1] * 1000, now)
               ELSE remove_key_from_expiration(db1, key)
    IN  IF opts.error # None THEN Outcome(opts.error[1], dbs, connection)
        ELSE IF opts.xx /\ opts.nx THEN Outcome(CommandSyntaxError, dbs, connection)
        ELSE IF Truthy(opts.ex) /\ Truthy(opts.px)
        THEN Outcome(CommandSyntaxError, dbs, connection)
        ELSE IF key_exists /\ opts.nx THEN Outcome(RedisNullBulkString, dbs, connection)
        ELSE IF ~key_exists /\ opts.xx THEN Outcome(RedisNullBulkString, dbs, connection)
        ELSE Outcome(OK, [dbs EXCEPT ![connection.db_index] = db2], connection)

cmd_mget(command, args, now, connection, dbs) ==
    IF Len(args) = 0 THEN Outcome(WrongNumberOfArgumentsError(command), dbs, connection)
    ELSE IF ~HasDB(dbs, connection) THEN Outcome(Raised("IndexError"), dbs, connection)
    ELSE LET db == _get_db(dbs, connection)
             result == [i \in 1..Len(args) |-> get_active_key(db, args[i], now)]
         IN  Outcome(RedisArray([i \in 1..Len(args) |->
                        IF result[i] # None THEN RedisString(result[i][1])
                        ELSE RedisNullBulkString]),
                     dbs, connection)

\* the while loop of cmd_mset without its remove_key_from_expiration
RECURSIVE MsetLoopKept(_, _, _)
MsetLoopKept(db, args, i) ==
    IF ~(i < Len(args)) THEN db
    ELSE MsetLoopKept([db EXCEPT !.kv = DictSet(@, args[i + 1], args[i + 2])],
                      args, i + 2)

\* the while loop of cmd_mset from index i on
RECURSIVE MsetLoop(_, _, _)
MsetLoop(db, args, i) ==
    IF ~(i < Len(args)) THEN db
    ELSE MsetLoop(remove_key_from_expiration(
                      [db EXCEPT !.kv = DictSet(@, args[i + 1], args[i + 2])],
                      args[i + 1]),
                  args, i + 2)

cmd_mset(command, args, now, connection, dbs) ==
    IF Len(args) < 2 THEN Outcome(WrongNumberOfArgumentsError(command), dbs, connection)
    ELSE IF Len(args) % 2 # 0
    THEN Outcome(WrongNumberOfArgumentsError(command), dbs, connection)
    ELSE IF ~HasDB(dbs, connection) THEN Outcome(Raised("IndexError"), dbs, connection)
    ELSE Outcome(OK,
                 [dbs EXCEPT ![connection.db_index] =
                    MsetLoop(_get_db(dbs, connection), args, 0)],
                 connection)

(***************************************************************************)
(* command.build_re_from_pattern and the part of Python's re that its      *)
(* results use over the characters of the model: literals, escapes, `.`,   *)
(* the closing `$`, and `*` or `?` after an atom.                          *)
(***************************************************************************)
\* re.sub('(?<!\\\\)\\' + c, repl, pattern): every c that no backslash
\* precedes in pattern becomes repl
RECURSIVE re_sub_unescaped(_, _, _, _)
re_sub_unescaped(c, repl, pattern, i) ==
    IF i > Len(pattern) THEN <<>>
    ELSE (IF pattern[i] = c /\ (i = 1 \/ pattern[i - 1] # "\\")
             THEN repl
             ELSE <<pattern[i]>>)
         \o re_sub_unescaped(c, repl, pattern, i + 1)

\* the text of the compiled expression, between `^` and `$`
build_re_from_pattern(pattern) ==
    re_sub_unescaped("?", <<".">>,
                     re_sub_unescaped("*", <<".", "*">>, pattern, 1), 1)

\* the character a backslash followed by d stands for: \a is the bell
EscapedChar(d) == IF d = "a" THEN "BEL" ELSE d

\* the atoms of the expression text r (which ends with the closing `$`),
\* from position i on, each with the quantifier that follows it
RECURSIVE ReAtoms(_, _)
ReAtoms(r, i) ==
    IF i > Len(r) THEN <<>>
    ELSE LET escaped == r[i] = "\\" /\ i < Len(r)
             width == IF escaped THEN 2 ELSE 1
             atom == IF escaped THEN [kind |-> "lit", ch |-> EscapedChar(r[i + 1])]
                     ELSE IF r[i] = "." THEN [kind |-> "any", ch |-> "."]
                     ELSE IF r[i] = "$" /\ i = Len(r) THEN [kind |-> "end", ch |-> "$"]
                     ELSE [kind |-> "lit", ch |-> r[i]]
             q == IF atom.kind # "end" /\ i + width <= Len(r) /\ r[i + width] \in {"*", "?"}
                     THEN r[i + width]
                     ELSE ""
         IN  <<[kind |-> atom.kind, ch |-> atom.ch, q |-> q]>>
             \o ReAtoms(r, i + width + (IF q = "" THEN 0 ELSE 1))

AtomMatches(atom, c) ==
    IF atom.kind = "any" THEN c # "\n" ELSE atom.ch = c

\* the atoms from i on match s from position j on; full: up to its end
RECURSIVE ReMatch(_, _, _, _, _)
ReMatch(atoms, i, s, j, full) ==
    IF i > Len(atoms) THEN (~full \/ j = Len(s) + 1)
    ELSE IF atoms[i].kind = "end"
    THEN /\ j = Len(s) + 1 \/ (j = Len(s) /\ s[j] = "\n")
         /\ ReMatch(atoms, i + 1, s, j, full)
    ELSE IF atoms[i].q = ""
    THEN /\ j <= Len(s)
         /\ AtomMatches(atoms[i], s[j])
         /\ ReMatch(atoms, i + 1, s, j + 1, full)
    ELSE \/ ReMatch(atoms, i + 1, s, j, full)
         \/ /\ j <= Len(s)
            /\ AtomMatches(atoms[i], s[j])
            /\ ReMatch(atoms, IF atoms[i].q = "*" THEN i ELSE i + 1, s, j + 1, full)

\* pattern_re.fullmatch(s) and pattern_re.match(s), for the text of pattern_re
re_fullmatch(re_text, s) == ReMatch(ReAtoms(re_text \o <<"$">>, 1), 1, s, 1, TRUE)

re_match(re_text, s) == ReMatch(ReAtoms(re_text \o <<"$">>, 1), 1, s, 1, FALSE)

\* the keys of a dict, as a sequence
RECURSIVE SetToSeq(_)
SetToSeq(S) ==
    IF S = {} THEN <<>>
    ELSE LET x == CHOOSE y \in S : TRUE IN <<x>> \o SetToSeq(S \ {x})

cmd_keys(command, args, now, connection, dbs) ==
    IF Len(args) # 1 THEN Outcome(WrongNumberOfArgumentsError(command), dbs, connection)
    ELSE IF ~HasDB(dbs, connection) THEN Outcome(Raised("IndexError"), dbs, connection)
    ELSE LET db == _get_db(dbs, connection)
             pattern_re == build_re_from_pattern(args[1])
             result == {key \in DOMAIN db.kv :
                            /\ re_fullmatch(pattern_re, key)
                            /\ is_key_active(db, key, now)}
         IN  Outcome(RedisArray([i \in 1..Cardinality(result) |->
                                    RedisString(SetToSeq(result)[i])]),
                     dbs, connection)

(***************************************************************************)
(* bytes.lower and str.lower over the letters                              *)
(***************************************************************************)
UpperCase == <<"A", "B", "C", "D", "E", "F", "G", "H", "I", "J", "K", "L", "M",
               "N", "O", "P", "Q", "R", "S", "T", "U", "V", "W", "X", "Y", "Z">>

LowerCase == <<"a", "b", "c", "d", "e", "f", "g", "h", "i", "j", "k", "l", "m",
               "n", "o", "p", "q", "r", "s", "t", "u", "v", "w", "x", "y", "z">>

UpperSet == {UpperCase[i] : i \in 1..26}

LowerChar(c) ==
    IF c \in UpperSet
    THEN LowerCase[CHOOSE i \in 1..26 : UpperCase[i] = c]
    ELSE c

(***************************************************************************)
(* command.CommandHandler.cmd_info.  A row [db_index, keys, expires] of    *)
(* the result stands for the line db<db_index>:keys=<keys>,expires=        *)
(* <expires> of the text.                                                  *)
(***************************************************************************)
num_keys(db, now) ==
    <<Cardinality({key \in DOMAIN db.kv : is_key_active(db, key, now)}),
      Cardinality({key \in DOMAIN db.kv : key \in DOMAIN db._expiration_key_finder})>>

RECURSIVE db_info_rows(_, _, _)
db_info_rows(dbs, now, db_index) ==
    IF db_index \notin DOMAIN dbs THEN <<>>
    ELSE LET n == num_keys(dbs[db_index], now)
         IN  (IF db_index > 0 /\ n[1] = 0 THEN <<>>
              ELSE <<[db_index |-> db_index, keys |-> n[1], expires |-> n[2]]>>)
             \o db_info_rows(dbs, now, db_index + 1)

cmd_info(command, args, now, connection, dbs) ==
    Outcome(RedisBulkString(<<"# Keyspace">> \o db_info_rows(dbs, now, 0)),
            dbs, connection)

(***************************************************************************)
(* command.PubSubHandler.  Its state is a record of the three indices: the *)
(* channel -> connections map (a channel without connection is left out),  *)
(* and the connection -> channels and connection -> patterns maps.  A      *)
(* handler gives what it returns or raises, the indices and the connection *)
(* as it leaves them, and the writes it spawns in the write pool, in order.*)
(***************************************************************************)
PubSubHandler ==
    [_channel_subscriptions |-> EmptyDict,
     _connection_channel_map |-> EmptyDict,
     _connection_pattern_channel_map |-> EmptyDict]

PubSubOutcome(result, pubsub, connection, writes) ==
    [result |-> result, pubsub |-> pubsub, connection |-> connection, writes |-> writes]

RedisMultipleResponses(responses) == [type |-> "MultipleResponses", data |-> responses]

SUBSCRIBE == <<"s", "u", "b", "s", "c", "r", "i", "b", "e">>
UNSUBSCRIBE == <<"u", "n">> \o SUBSCRIBE
PSUBSCRIBE == <<"p">> \o SUBSCRIBE
PUNSUBSCRIBE == <<"p">> \o UNSUBSCRIBE
PUBLISH == <<"p", "u", "b", "l", "i", "s", "h">>
PUBSUB == <<"p", "u", "b", "s", "u", "b">>

PUB_SUB_COMMANDS == {SUBSCRIBE, PSUBSCRIBE, UNSUBSCRIBE, PUNSUBSCRIBE, PUBLISH, PUBSUB}

\* self._channel_subscriptions[channel]
channel_subscriptions(pubsub, channel) ==
    IF channel \in DOMAIN pubsub._channel_subscriptions
    THEN pubsub._channel_subscriptions[channel]
    ELSE {}

\* c is the connection object
_ensure_connection(pubsub, c) ==
    [pubsub EXCEPT
        !._connection_channel_map = IF c \in DOMAIN @ THEN @ ELSE DictSet(@, c, {}),
        !._connection_pattern_channel_map = IF c \in DOMAIN @ THEN @ ELSE DictSet(@, c, {})]

_current_connection_subscriptions(pubsub, c) ==
    Cardinality(pubsub._connection_channel_map[c])
    + Cardinality(pubsub._connection_pattern_channel_map[c])

\* the response [kind, name, count] of the four subscription commands
SubscriptionResponse(kind, name, pubsub, c) ==
    RedisArray(<<RedisBulkString(kind), RedisBulkString(name),
                 RedisInteger(_current_connection_subscriptions(pubsub, c))>>)

\* the for loop of cmd_subscribe from args[i] on (Python index i - 1)
RECURSIVE SubscribeLoop(_, _, _, _, _)
SubscribeLoop(args, i, c, pubsub, responses) ==
    IF i > Len(args) THEN [pubsub |-> pubsub, responses |-> responses]
    ELSE LET channel == args[i]
             pubsub1 == [pubsub EXCEPT
                 !._channel_subscriptions =
                     DictSet(@, channel, channel_subscriptions(pubsub, channel) \cup {c}),
                 !._connection_channel_map[c] = @ \cup {channel}]
         IN  SubscribeLoop(args, i + 1, c, pubsub1,
                 Append(responses, SubscriptionResponse(SUBSCRIBE, channel, pubsub1, c)))

\* cmd_subscribe without `self._channel_subscriptions[channel].add(connection)`
cmd_subscribe_unindexed(command, args, now, c, connection, pubsub) ==
    IF Len(args) = 0
    THEN PubSubOutcome(WrongNumberOfArgumentsError(command), pubsub, connection, <<>>)
    ELSE LET r == SubscribeLoop(args, 1, c, _ensure_connection(pubsub, c), <<>>)
         IN  PubSubOutcome(RedisMultipleResponses(r.responses),
                           [r.pubsub EXCEPT
                               !._channel_subscriptions = pubsub._channel_subscriptions],
                           [connection EXCEPT !.state = "pubsub"], <<>>)

cmd_subscribe(command, args, now, c, connection, pubsub) ==
    IF Len(args) = 0
    THEN PubSubOutcome(WrongNumberOfArgumentsError(command), pubsub, connection, <<>>)
    ELSE LET r == SubscribeLoop(args, 1, c, _ensure_connection(pubsub, c), <<>>)
         IN  PubSubOutcome(RedisMultipleResponses(r.responses), r.pubsub,
                           [connection EXCEPT !.state = "pubsub"], <<>>)

\* the for loop of cmd_unsubscribe over channels_to_remove
RECURSIVE UnsubscribeLoop(_, _, _, _, _)
UnsubscribeLoop(channels, i, c, pubsub, responses) ==
    IF i > Len(channels) THEN [pubsub |-> pubsub, responses |-> responses]
    ELSE LET channel == channels[i]
             rest == channel_subscriptions(pubsub, channel) \ {c}
             pubsub1 ==
                 IF c \in channel_subscriptions(pubsub, channel)
                 THEN [pubsub EXCEPT
                         !._channel_subscriptions =
                             IF rest = {} THEN DictPop(@, channel)
                             ELSE DictSet(@, channel, rest),
                         !._connection_channel_map[c] = @ \ {channel}]
                 ELSE pubsub
         IN  UnsubscribeLoop(channels, i + 1, c, pubsub1,
                 Append(responses, SubscriptionResponse(UNSUBSCRIBE, channel, pubsub1, c)))

\* cmd_unsubscribe that goes back to normal mode whatever is left
cmd_unsubscribe_always(command, args, now, c, connection, pubsub) ==
    LET pubsub0 == _ensure_connection(pubsub, c)
        channels_to_remove ==
            IF Len(args) = 0 THEN SetToSeq(pubsub0._connection_channel_map[c]) ELSE args
        r == UnsubscribeLoop(channels_to_remove, 1, c, pubsub0, <<>>)
    IN  PubSubOutcome(RedisMultipleResponses(r.responses), r.pubsub,
                      [connection EXCEPT !.state = "normal"], <<>>)

cmd_unsubscribe(command, args, now, c, connection, pubsub) ==
    LET pubsub0 == _ensure_connection(pubsub, c)
        channels_to_remove ==
            IF Len(args) = 0 THEN SetToSeq(pubsub0._connection_channel_map[c]) ELSE args
        r == UnsubscribeLoop(channels_to_remove, 1, c, pubsub0, <<>>)
    IN  PubSubOutcome(RedisMultipleResponses(r.responses), r.pubsub,
                      IF _current_connection_subscriptions(r.pubsub, c) = 0
                      THEN [connection EXCEPT !.state = "normal"]
                      ELSE connection,
                      <<>>)

\* the for loop of cmd_psubscribe
RECURSIVE PSubscribeLoop(_, _, _, _, _)
PSubscribeLoop(args, i, c, pubsub, responses) ==
    IF i > Len(args) THEN [pubsub |-> pubsub, responses |-> responses]
    ELSE LET pattern == args[i]
             pubsub1 == [pubsub EXCEPT
                 !._connection_pattern_channel_map[c] = @ \cup {pattern}]
         IN  PSubscribeLoop(args, i + 1, c, pubsub1,
                 Append(responses, SubscriptionResponse(PSUBSCRIBE, pattern, pubsub1, c)))

cmd_psubscribe(command, args, now, c, connection, pubsub) ==
    IF Len(args) = 0
    THEN PubSubOutcome(WrongNumberOfArgumentsError(command), pubsub, connection, <<>>)
    ELSE LET r == PSubscribeLoop(args, 1, c, _ensure_connection(pubsub, c), <<>>)
         IN  PubSubOutcome(RedisMultipleResponses(r.responses), r.pubsub, connection, <<>>)

\* the for loop of cmd_punsubscribe over patterns_to_remove
RECURSIVE PUnsubscribeLoop(_, _, _, _, _)
PUnsubscribeLoop(patterns, i, c, pubsub, responses) ==
    IF i > Len(patterns) THEN [pubsub |-> pubsub, responses |-> responses]
    ELSE LET pattern == patterns[i]
             pubsub1 == [pubsub EXCEPT
                 !._connection_pattern_channel_map[c] = @ \ {pattern}]
         IN  PUnsubscribeLoop(patterns, i + 1, c, pubsub1,
                 Append(responses, SubscriptionResponse(PUNSUBSCRIBE, pattern, pubsub1, c)))

\* cmd_punsubscribe without the return to normal mode
cmd_punsubscribe_stays(command, args, now, c, connection, pubsub) ==
    LET pubsub0 == _ensure_connection(pubsub, c)
        patterns_to_remove ==
            IF Len(args) = 0 THEN SetToSeq(pubsub0._connection_pattern_channel_map[c])
            ELSE args
        r == PUnsubscribeLoop(patterns_to_remove, 1, c, pubsub0, <<>>)
    IN  PubSubOutcome(RedisMultipleResponses(r.responses), r.pubsub, connection, <<>>)

cmd_punsubscribe(command, args, now, c, connection, pubsub) ==
    LET pubsub0 == _ensure_connection(pubsub, c)
        patterns_to_remove ==
            IF Len(args) = 0 THEN SetToSeq(pubsub0._connection_pattern_channel_map[c])
            ELSE args
        r == PUnsubscribeLoop(patterns_to_remove, 1, c, pubsub0, <<>>)
    IN  PubSubOutcome(RedisMultipleResponses(r.responses), r.pubsub,
                      IF _current_connection_subscriptions(r.pubsub, c) = 0
                      THEN [connection EXCEPT !.state = "normal"]
                      ELSE connection,
                      <<>>)

MESSAGE == <<"m", "e", "s", "s", "a", "g", "e">>
PMESSAGE == <<"p">> \o MESSAGE

\* a write spawned in the write pool: c.write(data)
PoolWrite(c, data) == [connection |-> c, data |-> data]

\* the (pattern, connection) pairs of cmd_publish whose pattern matches channel
pattern_connection_tuples(pubsub, channel) ==
    {<<pattern, c>> \in
        UNION {{<<p, d>> : p \in pubsub._connection_pattern_channel_map[d]} :
                    d \in DOMAIN pubsub._connection_pattern_channel_map} :
        re_match(build_re_from_pattern(pattern), channel)}

\* cmd_publish that leaves the pattern subscriptions out of its count
cmd_publish_channels(command, args, now, c, connection, pubsub) ==
    IF Len(args) # 2
    THEN PubSubOutcome(WrongNumberOfArgumentsError(command), pubsub, connection, <<>>)
    ELSE LET channel == args[1]
             message == args[2]
             channel_connections == SetToSeq(channel_subscriptions(pubsub, channel))
             tuples == SetToSeq(pattern_connection_tuples(pubsub, channel))
             data == RedisArray(<<RedisBulkString(MESSAGE), RedisBulkString(channel),
                                  RedisBulkString(message)>>)
         IN  PubSubOutcome(
                 RedisInteger(Len(channel_connections)), pubsub, connection,
                 [i \in 1..Len(channel_connections) |->
                     PoolWrite(channel_connections[i], data)]
                 \o [i \in 1..Len(tuples) |->
                     PoolWrite(tuples[i][2],
                         RedisArray(<<RedisBulkString(PMESSAGE),
                                      RedisBulkString(tuples[i][1]),
                                      RedisBulkString(message)>>))])

cmd_publish(command, args, now, c, connection, pubsub) ==
    IF Len(args) # 2
    THEN PubSubOutcome(WrongNumberOfArgumentsError(command), pubsub, connection, <<>>)
    ELSE LET channel == args[1]
             message == args[2]
             channel_connections == SetToSeq(channel_subscriptions(pubsub, channel))
             tuples == SetToSeq(pattern_connection_tuples(pubsub, channel))
             data == RedisArray(<<RedisBulkString(MESSAGE), RedisBulkString(channel),
                                  RedisBulkString(message)>>)
         IN  PubSubOutcome(
                 RedisInteger(Len(channel_connections) + Len(tuples)), pubsub, connection,
                 [i \in 1..Len(channel_connections) |->
                     PoolWrite(channel_connections[i], data)]
                 \o [i \in 1..Len(tuples) |->
                     PoolWrite(tuples[i][2],
                         RedisArray(<<RedisBulkString(PMESSAGE),
                                      RedisBulkString(tuples[i][1]),
                                      RedisBulkString(message)>>))])

CHANNELS == <<"c", "h", "a", "n", "n", "e", "l", "s">>
NUMSUB == <<"n", "u", "m", "s", "u", "b">>
NUMPAT == <<"n", "u", "m", "p", "a", "t">>

UnknownSubcommandError(subcommand) ==
    [type |-> "Error",
     data |-> <<"ERR", "Unknown PUBSUB subcommand or wrong number of arguments for",
                subcommand>>]

\* the result list of PUBSUB NUMSUB from channels[i] on
RECURSIVE NumsubLoop(_, _, _)
NumsubLoop(pubsub, channels, i) ==
    IF i > Len(channels) THEN <<>>
    ELSE <<RedisBulkString(channels[i]),
           RedisInteger(Cardinality(channel_subscriptions(pubsub, channels[i])))>>
         \o NumsubLoop(pubsub, channels, i + 1)

cmd_pubsub(command, args, now, c, connection, pubsub) ==
    IF Len(args) < 1
    THEN PubSubOutcome(WrongNumberOfArgumentsError(command), pubsub, connection, <<>>)
    ELSE
    LET subcommand == [i \in 1..Len(args[1]) |-> LowerChar(args[1][i])]
    IN  IF subcommand = CHANNELS
        THEN IF Len(args) > 2
             THEN PubSubOutcome(WrongNumberOfArgumentsError(command), pubsub,
                                connection, <<>>)
             ELSE LET pattern_re == IF Len(args) = 2 THEN build_re_from_pattern(args[2])
                                    ELSE <<".", "*">>
                      result == SetToSeq({channel \in DOMAIN pubsub._channel_subscriptions :
                                    /\ re_match(pattern_re, channel)
                                    /\ Cardinality(pubsub._channel_subscriptions[channel]) > 0})
                  IN  PubSubOutcome(
                          RedisArray([i \in 1..Len(result) |-> RedisBulkString(result[i])]),
                          pubsub, connection, <<>>)
        ELSE IF subcommand = NUMSUB
        THEN PubSubOutcome(RedisArray(NumsubLoop(pubsub, Tail(args), 1)),
                           pubsub, connection, <<>>)
        ELSE IF subcommand = NUMPAT
        THEN \* len(x) of a Connection, for every key x of the pattern map
             IF DOMAIN pubsub._connection_pattern_channel_map = {}
             THEN PubSubOutcome(RedisInteger(0), pubsub, connection, <<>>)
             ELSE PubSubOutcome(Raised("TypeError"), pubsub, connection, <<>>)
        ELSE PubSubOutcome(UnknownSubcommandError(subcommand), pubsub, connection, <<>>)

(***************************************************************************)
(* command.CommandProcessor.process_command                                *)
(***************************************************************************)
\* bytes.decode().lower()[:50]
CleanCommand(command) ==
    [i \in 1..(IF Len(command) < 50 THEN Len(command) ELSE 50) |-> LowerChar(command[i])]

GET == <<"g", "e", "t">>
SET == <<"s", "e", "t">>
MGET == <<"m", "g", "e", "t">>
MSET == <<"m", "s", "e", "t">>
KEYS == <<"k", "e", "y", "s">>
SELECT == <<"s", "e", "l", "e", "c", "t">>
PING == <<"p", "i", "n", "g">>
INFO == <<"i", "n", "f", "o">>

\* the verbs for which getattr finds a cmd_ method of CommandHandler
CommandHandlerVerbs == {GET, SET, MGET, MSET, KEYS, SELECT, PING, INFO}

UnknownCommandError(command) ==
    [type |-> "Error", data |-> <<"ERR", "unknown command", command>>]

PubSubOnly ==
    RedisError("only (P)SUBSCRIBE / (P)UNSUBSCRIBE / PING / QUIT allowed in this context")

\* what process_command returns or raises, with the storage, the connection
\* and the indices of the PubSubHandler as it leaves them and the writes it
\* spawned
Processed(result, dbs, connection, pubsub, writes) ==
    [result |-> result, dbs |-> dbs, connection |-> connection,
     pubsub |-> pubsub, writes |-> writes]

\* the call of a method of CommandHandler
command_handler(clean_command, command, args, now, connection, dbs) ==
    IF clean_command = GET THEN cmd_get(command, args, now, connection, dbs)
    ELSE IF clean_command = SET THEN cmd_set(command, args, now, connection, dbs)
    ELSE IF clean_command = MGET THEN cmd_mget(command, args, now, connection, dbs)
    ELSE IF clean_command = MSET THEN cmd_mset(command, args, now, connection, dbs)
    ELSE IF clean_command = KEYS THEN cmd_keys(command, args, now, connection, dbs)
    ELSE IF clean_command = SELECT THEN cmd_select(command, args, now, connection, dbs)
    ELSE IF clean_command = INFO THEN cmd_info(command, args, now, connection, dbs)
    ELSE cmd_ping(command, args, now, connection, dbs)

\* the call of a method of PubSubHandler
pubsub_handler(clean_command, command, args, now, c, connection, pubsub) ==
    IF clean_command = SUBSCRIBE
    THEN cmd_subscribe(command, args, now, c, connection, pubsub)
    ELSE IF clean_command = UNSUBSCRIBE
    THEN cmd_unsubscribe(command, args, now, c, connection, pubsub)
    ELSE IF clean_command = PSUBSCRIBE
    THEN cmd_psubscribe(command, args, now, c, connection, pubsub)
    ELSE IF clean_command = PUNSUBSCRIBE
    THEN cmd_punsubscribe(command, args, now, c, connection, pubsub)
    ELSE IF clean_command = PUBLISH
    THEN cmd_publish(command, args, now, c, connection, pubsub)
    ELSE cmd_pubsub(command, args, now, c, connection, pubsub)

\* process_command that lets every verb through in pubsub mode
process_command_open(cmd_parts, c, connection, dbs, pubsub, now) ==
    IF Len(cmd_parts) = 0
    THEN Processed(Raised("AssertionError"), dbs, connection, pubsub, <<>>)
    ELSE
    LET command == cmd_parts[1]
        args == Tail(cmd_parts)
        clean_command == CleanCommand(command)
    IN  IF clean_command \in PUB_SUB_COMMANDS
        THEN LET out == pubsub_handler(clean_command, command, args, now, c,
                                       connection, pubsub)
             IN  Processed(out.result, dbs, out.connection, out.pubsub, out.writes)
        ELSE IF clean_command \notin CommandHandlerVerbs
        THEN Processed(UnknownCommandError(command), dbs, connection, pubsub, <<>>)
        ELSE LET out == command_handler(clean_command, command, args, now,
                                        connection, dbs)
             IN  Processed(out.result, out.dbs, out.connection, pubsub, <<>>)

\* c is the connection object and connection its fields
process_command(cmd_parts, c, connection, dbs, pubsub, now) ==
    IF Len(cmd_parts) = 0
    THEN Processed(Raised("AssertionError"), dbs, connection, pubsub, <<>>)
    ELSE
    LET command == cmd_parts[1]
        args == Tail(cmd_parts)
        clean_command == CleanCommand(command)
    IN  IF clean_command \notin PUB_SUB_COMMANDS \cup CommandHandlerVerbs
        THEN Processed(UnknownCommandError(command), dbs, connection, pubsub, <<>>)
        ELSE IF /\ connection.state = "pubsub"
                /\ clean_command \notin PUB_SUB_COMMANDS
                /\ clean_command # PING
        THEN Processed(PubSubOnly, dbs, connection, pubsub, <<>>)
        ELSE IF clean_command \in PUB_SUB_COMMANDS
        THEN LET out == pubsub_handler(clean_command, command, args, now, c,
                                       connection, pubsub)
             IN  Processed(out.result, dbs, out.connection, out.pubsub, out.writes)
        ELSE LET out == command_handler(clean_command, command, args, now,
                                        connection, dbs)
             IN  Processed(out.result, out.dbs, out.connection, pubsub, <<>>)

(***************************************************************************)
(* The state: the storage, the connections, the clock that                 *)
(* datetime.utcnow() reads, and the periodic task.  last is the command    *)
(* processed at the present instant with what was written back for it, and *)
(* lastWrite tells, for a DB and a key, which successful write was the     *)
(* last one.  pubsub holds the indices of the PubSubHandler and write_pool  *)
(* the writes spawned in its pool that have not run yet.                   *)
(***************************************************************************)
VARIABLES dbs, connections, clock, periodic_task_alive, last, lastWrite,
          pubsub, write_pool, stream, sock

vars == <<dbs, connections, clock, periodic_task_alive, pubsub, write_pool,
          stream, sock, lastWrite, last>>

Conns == {"c1"}

\* the step by which the clock advances, in ms
TickStep == 1000

\* a connection as accepted: db 0, normal mode, socket open
Connection == [db_index |-> 0, state |-> "normal", open |-> TRUE]

NoResult == [type |-> "None", data |-> <<>>]

NoCommand == [connection |-> "", cmd_parts |-> <<>>, result |-> NoResult]

\* command_stream of a connection as it starts, for a client that sends the
\* frames of the commands sent: the bytes under way, whether the client has
\* closed its side, the buffer, the place where the generator waits, its
\* locals array_len, parts and str_len, the exception that left it, the
\* number of commands it has yielded and of bytes that recv has returned
Stream(sent, wire) ==
    [sent |-> sent, wire |-> wire, eof |-> FALSE, buffer |-> <<>>, pc |-> "top",
     array_len |-> 0, parts |-> <<>>, str_len |-> 0, exc |-> "", yields |-> 0,
     received |-> 0]

\* the socket of a connection towards its client: the pieces sent, the
\* sendall calls that wait for the socket to take the rest of their frame,
\* and the number of sendall calls begun
Socket == [out |-> <<>>, busy |-> <<>>, begun |-> 0]

Init ==
    /\ dbs = Storage
    /\ connections = [c \in Conns |-> Connection]
    /\ clock = 0
    /\ periodic_task_alive = TRUE
    /\ last = NoCommand
    /\ lastWrite = EmptyDict
    /\ pubsub = PubSubHandler
    /\ write_pool = <<>>
    /\ stream = [c \in DOMAIN connections |-> Stream(<<>>, <<>>)]
    /\ sock = [c \in DOMAIN connections |-> Socket]

(***************************************************************************)
(* Inputs.                                                                 *)
(***************************************************************************)
NX == <<"n", "x">>
XX == <<"x", "x">>
EX == <<"e", "x">>
PX == <<"p", "x">>

\* the options of SET in the runs of Spec
SetOptions == {<<>>, <<EX, <<"1">>>>, <<PX, <<"1">>>>}

UpperNX == <<"N", "X">>
UpperXX == <<"X", "X">>
UpperEX == <<"E", "X">>
UpperPX == <<"P", "X">>

\* an option that SET does not have
Unknown == <<"z">>

\* the options of SET in the runs of SpecSet
SetOptionsAll ==
    {<<>>, <<NX>>, <<XX>>, <<NX, XX>>,
     <<EX, <<"1">>>>, <<PX, <<"1">>>>, <<EX, <<"0">>>>, <<PX, <<"0">>>>,
     <<PX, <<"-", "1">>>>,
     <<EX, <<"1">>, PX, <<"1">>>>, <<EX, <<"0">>, PX, <<"1">>>>,
     <<EX>>, <<NX, PX>>, <<Unknown>>, <<PX, Unknown>>,
     <<UpperNX>>, <<UpperXX>>, <<UpperEX, <<"1">>>>, <<UpperPX, <<"1">>>>}

\* the keys in the runs of SpecSet
SetKeys == {<<"a">>}

KeysPatterns == {<<"*">>}

\* the keys that a command writes when it succeeds
WrittenKeys(cmd_parts) ==
    IF cmd_parts[1] = SET THEN {cmd_parts[2]}
    ELSE IF cmd_parts[1] = MSET
    THEN {cmd_parts[i] : i \in {j \in 2..Len(cmd_parts) : j % 2 = 0}}
    ELSE {}

\* the value that cmd_parts gives key k
WrittenValue(cmd_parts, k) ==
    cmd_parts[1 + CHOOSE i \in 2..(Len(cmd_parts) - 1) :
                    /\ cmd_parts[i] = k
                    /\ i % 2 = 0
                    /\ \A j \in (i + 1)..(Len(cmd_parts) - 1) :
                          j % 2 = 0 => cmd_parts[j] # k]

\* the options of a SET
OptionsOf(cmd_parts) == SubSeq(cmd_parts, 4, Len(cmd_parts))

\* o is EX or PX, in either case, with one integer operand that is positive
IsExpiryOption(o) ==
    /\ Len(o) = 2
    /\ o[1] \in {EX, PX, UpperEX, UpperPX}
    /\ ensure_int(o[2]).ok

\* the milliseconds that such an option stands for
OptionMilliseconds(o) ==
    IF o[1] \in {EX, UpperEX} THEN 1000 * ensure_int(o[2]).value
    ELSE ensure_int(o[2]).value

\* what a successful write is for the TTL of its key: "mset", "plain" for a
\* SET without options, "expiring" for a SET with EX or PX and a positive
\* operand
WriteKind(cmd_parts) ==
    IF cmd_parts[1] = MSET THEN "mset"
    ELSE IF OptionsOf(cmd_parts) = <<>> THEN "plain"
    ELSE IF IsExpiryOption(OptionsOf(cmd_parts))
            /\ OptionMilliseconds(OptionsOf(cmd_parts)) > 0
    THEN "expiring"
    ELSE "other"

\* what lastWrite keeps of a successful write of key k at now: the value of
\* a plain write and the expiry instant that k had before it, and the expiry
\* instant that an expiring write asks for
WriteRecord(cmd_parts, k, now, db) ==
    LET kind == WriteKind(cmd_parts)
        entry == DictGet(db._expiration_key_finder, k)
    IN  [kind |-> kind,
         value |-> IF kind = "plain" THEN WrittenValue(cmd_parts, k) ELSE <<>>,
         expiry |-> IF kind = "expiring"
                       THEN Some(now + OptionMilliseconds(OptionsOf(cmd_parts)))
                       ELSE None,
         prior |-> IF kind = "plain" /\ entry # None
                      THEN Some(entry[1].expires_at)
                      ELSE None]

(***************************************************************************)
(* server.RedisServer.connection_handler: one turn of the loop, for the    *)
(* command cmd_parts that command_stream yields on connection c.  An       *)
(* exception other than a RedisError ends the loop and closes the socket.  *)
(***************************************************************************)
\* The indices hold the connections by weak references: a connection that
\* is closed and that no write of the pool refers to is freed, and leaves
\* the indices.
collect(indices, conns, pool) ==
    LET freed == {c \in DOMAIN conns :
                    /\ ~conns[c].open
                    /\ \A i \in 1..Len(pool) : pool[i].connection # c}
        kept(m) == [c \in (DOMAIN m) \ freed |-> m[c]]
        channels == {channel \in DOMAIN indices._channel_subscriptions :
                        indices._channel_subscriptions[channel] \ freed # {}}
    IN  [_channel_subscriptions |->
            [channel \in channels |-> indices._channel_subscriptions[channel] \ freed],
         _connection_channel_map |-> kept(indices._connection_channel_map),
         _connection_pattern_channel_map |->
            kept(indices._connection_pattern_channel_map)]

\* connection_handler that ends its loop on a RedisError too
connection_handler_fatal(c, cmd_parts) ==
    \E out \in {process_command(cmd_parts, c, connections[c], dbs, pubsub, clock)} :
        /\ connections[c].open
        /\ dbs' = out.dbs
        /\ connections' = [connections EXCEPT ![c] =
                [out.connection EXCEPT !.open = out.result.type \notin {"Raised", "Error"}]]
        /\ last' = [connection |-> c, cmd_parts |-> cmd_parts, result |-> out.result]
        /\ write_pool' = write_pool \o out.writes
        /\ pubsub' = collect(out.pubsub, connections', write_pool')
        /\ UNCHANGED <<clock, periodic_task_alive, stream, sock>>

connection_handler(c, cmd_parts) ==
    \E out \in {process_command(cmd_parts, c, connections[c], dbs, pubsub, clock)} :
        /\ connections[c].open
        /\ dbs' = out.dbs
        /\ connections' = [connections EXCEPT ![c] =
                [out.connection EXCEPT !.open = out.result.type # "Raised"]]
        /\ last' = [connection |-> c, cmd_parts |-> cmd_parts, result |-> out.result]
        /\ write_pool' = write_pool \o out.writes
        /\ pubsub' = collect(out.pubsub, connections', write_pool')
        /\ UNCHANGED <<clock, periodic_task_alive, stream, sock>>

\* lastWrite after the step that processes cmd_parts on connection c
Record(c, cmd_parts) ==
    LET db_index == connections[c].db_index
        written == IF SameResult(last'.result, OK) THEN WrittenKeys(cmd_parts) ELSE {}
    IN  lastWrite' =
            [x \in (DOMAIN lastWrite) \cup {<<db_index, k>> : k \in written} |->
                IF x[1] = db_index /\ x[2] \in written
                THEN WriteRecord(cmd_parts, x[2], clock, dbs[db_index])
                ELSE lastWrite[x]]

Command(c, cmd_parts) == connection_handler(c, cmd_parts) /\ Record(c, cmd_parts)

Get(c) == \E k \in Keys : Command(c, <<GET, k>>)

Set(c) ==
    \E k \in Keys, v \in Values, o \in SetOptions : Command(c, <<SET, k, v>> \o o)

MGet(c) == Command(c, <<MGET, <<>>, <<"a">>>>)

MSet(c) == \E k \in Keys, v \in Values : Command(c, <<MSET, k, v>>)

KeysCmd(c) == \E p \in KeysPatterns : Command(c, <<KEYS, p>>)

\* run.periodic_task: one wake-up of the expirer
PeriodicTask ==
    \E out \in {process_periodic_task(dbs, clock)} :
        /\ periodic_task_alive
        /\ dbs' = out.dbs
        /\ periodic_task_alive' = ~out.raised
        /\ last' = NoCommand
        /\ UNCHANGED <<connections, clock, lastWrite, pubsub, write_pool, stream, sock>>

\* time passes
Tick ==
    /\ clock < MaxTicks * TickStep
    /\ clock' = clock + TickStep
    /\ last' = NoCommand
    /\ UNCHANGED <<dbs, connections, periodic_task_alive, lastWrite, pubsub, write_pool,
                   stream, sock>>

\* the counters of the DBs stay within the bound
CountBound == \A i \in DOMAIN dbs : dbs[i]._expiration_counter <= MaxCount

Next ==
    \/ \E c \in Conns : Get(c) /\ CountBound'
    \/ \E c \in Conns : Set(c) /\ CountBound'
    \/ \E c \in Conns : MGet(c) /\ CountBound'
    \/ \E c \in Conns : MSet(c) /\ CountBound'
    \/ \E c \in Conns : KeysCmd(c) /\ CountBound'
    \/ PeriodicTask
    \/ Tick

Spec == Init /\ [][Next]_vars

(***************************************************************************)
(* SpecSet: SET with all its options, spelled both ways, and GET.          *)
(***************************************************************************)
SetAll(c) ==
    \E k \in SetKeys, v \in Values, o \in SetOptionsAll :
        connection_handler(c, <<SET, k, v>> \o o) /\ UNCHANGED lastWrite

GetOnly(c) == \E k \in SetKeys : connection_handler(c, <<GET, k>>) /\ UNCHANGED lastWrite

NextSet ==
    \/ \E c \in Conns : SetAll(c) /\ CountBound'
    \/ \E c \in Conns : GetOnly(c)
    \/ PeriodicTask
    \/ Tick

SpecSet == Init /\ [][NextSet]_vars

(***************************************************************************)
(* What the claims speak of.                                               *)
(***************************************************************************)
\* the DB that the connection of the last command has selected
LastDB == dbs[connections[last.connection].db_index]

LastIs(verb) == last.cmd_parts # <<>> /\ last.cmd_parts[1] = verb

\* the TTL entry of key k in db has lapsed at now
Lapsed(db, k, now) ==
    /\ k \in DOMAIN db._expiration_key_finder
    /\ db._expiration_key_finder[k].expires_at < now

\* key k is in db and its TTL, if it has one, has not lapsed at now
Active(db, k, now) == k \in DOMAIN db.kv /\ ~Lapsed(db, k, now)

\* the last write of key k in the DB of the last command
LastWriteOf(k) == lastWrite[<<connections[last.connection].db_index, k>>]

HasLastWrite(k) == <<connections[last.connection].db_index, k>> \in DOMAIN lastWrite

IsBulk(r, v) == r.type = "BulkString" /\ r.data = v

IsNull(r) == r.type = "NullBulkString"

(***************************************************************************)
(* C1: a GET, MGET or KEYS at the instant now never returns a key whose    *)
(* TTL entry has expires_at < now, and it returns every key that is in the *)
(* DB and whose TTL has not lapsed (expires_at >= now, or no TTL).         *)
(***************************************************************************)
C1_ReadsReturnActiveKeys ==
    /\ LastIs(GET) /\ Len(last.cmd_parts) = 2 =>
          LET k == last.cmd_parts[2]
          IN  /\ Lapsed(LastDB, k, clock) => IsNull(last.result)
              /\ Active(LastDB, k, clock) => IsBulk(last.result, LastDB.kv[k])
    /\ LastIs(MGET) =>
          /\ last.result.type = "Array"
          /\ Len(last.result.data) = Len(last.cmd_parts) - 1
          /\ \A i \in 1..Len(last.result.data) :
                LET k == last.cmd_parts[i + 1]
                IN  /\ Lapsed(LastDB, k, clock) => IsNull(last.result.data[i])
                    /\ Active(LastDB, k, clock) =>
                          /\ last.result.data[i].type = "String"
                          /\ last.result.data[i].data = LastDB.kv[k]
    /\ LastIs(KEYS) /\ last.cmd_parts = <<KEYS, <<"*">>>> =>
          /\ last.result.type = "Array"
          /\ {last.result.data[i].data : i \in 1..Len(last.result.data)}
                = {k \in Keys : Active(LastDB, k, clock)}

\* a GET, an MGET and a KEYS that left out a key still in the DB
C1_Witness ==
    /\ \/ last.cmd_parts = <<GET, <<"a">>>> /\ IsNull(last.result)
       \/ LastIs(MGET) /\ IsNull(last.result.data[2])
       \/ LastIs(KEYS) /\ Len(last.result.data) = 1
    /\ <<"a">> \in DOMAIN LastDB.kv
    /\ <<>> \in DOMAIN LastDB.kv
    /\ Lapsed(LastDB, <<"a">>, clock)

(***************************************************************************)
(* C2: a run of the expirer removes from the key->value map of a DB only   *)
(* keys whose TTL has lapsed: a key that is active at the instant of the   *)
(* run is still there afterwards, with its value and its TTL unchanged.    *)
(***************************************************************************)
\* the step is a run of process_periodic_task
IsPeriodicTaskStep == clock' = clock /\ last' = NoCommand /\ dbs' # dbs

C2_ExpirerKeepsActiveKeys ==
    [][IsPeriodicTaskStep =>
        \A i \in DOMAIN dbs : \A k \in DOMAIN dbs[i].kv :
            Active(dbs[i], k, clock) =>
                /\ k \in DOMAIN dbs'[i].kv
                /\ dbs'[i].kv[k] = dbs[i].kv[k]
                /\ DictGet(dbs'[i]._expiration_key_finder, k)
                      = DictGet(dbs[i]._expiration_key_finder, k)]_vars

(***************************************************************************)
(* C3: when the last write of key k was a SET k v EX s or SET k v PX ms    *)
(* with a positive operand, every GET k at an instant later than the       *)
(* expiry instant returns the Null Bulk String, whatever runs of the       *)
(* expirer came in between.                                                *)
(***************************************************************************)
C3_GetAfterExpiryIsNull ==
    LastIs(GET) /\ Len(last.cmd_parts) = 2 /\ HasLastWrite(last.cmd_parts[2]) =>
        LET w == LastWriteOf(last.cmd_parts[2])
        IN  w.kind = "expiring" /\ clock > w.expiry[1] => IsNull(last.result)

(***************************************************************************)
(* C4: when the last write of key k was a SET k v without EX and PX and k  *)
(* had a TTL before it, every GET k returns v, also after the old expiry   *)
(* instant and after runs of the expirer.                                  *)
(***************************************************************************)
C4_PlainSetClearsTTL ==
    LastIs(GET) /\ Len(last.cmd_parts) = 2 /\ HasLastWrite(last.cmd_parts[2]) =>
        LET w == LastWriteOf(last.cmd_parts[2])
        IN  w.kind = "plain" /\ w.prior # None => IsBulk(last.result, w.value)

\* a GET of such a key after its old expiry instant, the expirer having
\* emptied the heap
C4_Witness ==
    /\ last.cmd_parts = <<GET, <<"a">>>>
    /\ HasLastWrite(<<"a">>)
    /\ LastWriteOf(<<"a">>).kind = "plain"
    /\ LastWriteOf(<<"a">>).prior # None
    /\ clock > LastWriteOf(<<"a">>).prior[1]
    /\ LastDB.expiration_pq = {}
    /\ IsBulk(last.result, LastWriteOf(<<"a">>).value)

(***************************************************************************)
(* C5: a SET k v that replied OK, followed at once by GET k on the same    *)
(* connection, returns v as a Bulk String, whatever k was before.          *)
(***************************************************************************)
C5_GetAfterSet ==
    [][(/\ LastIs(SET) /\ Len(last.cmd_parts) = 3
        /\ SameResult(last.result, OK)
        /\ last'.connection = last.connection
        /\ last'.cmd_parts = <<GET, last.cmd_parts[2]>>)
       => IsBulk(last'.result, last.cmd_parts[3])]_vars

\* a GET that returns what the last write, a SET k v of a key with a lapsed
\* TTL, wrote in the same instant
C5_Witness ==
    /\ last.cmd_parts = <<GET, <<"a">>>>
    /\ HasLastWrite(<<"a">>)
    /\ LastWriteOf(<<"a">>).kind = "plain"
    /\ LastWriteOf(<<"a">>).prior # None
    /\ LastWriteOf(<<"a">>).prior[1] < clock
    /\ LastDB.expiration_pq # {}
    /\ IsBulk(last.result, LastWriteOf(<<"a">>).value)

(***************************************************************************)
(* The steps that process a SET, for the claims on its options.            *)
(***************************************************************************)
\* the step processes a command
IsCommandStep == clock' = clock /\ last'.cmd_parts # <<>>

IsSetStep == IsCommandStep /\ last'.cmd_parts[1] = SET /\ Len(last'.cmd_parts) >= 3

\* the DB of the connection that the step is on, before and after it
StepDB == dbs[connections[last'.connection].db_index]

StepDBAfter == dbs'[connections[last'.connection].db_index]

StepKey == last'.cmd_parts[2]

StepValue == last'.cmd_parts[3]

StepOptions == OptionsOf(last'.cmd_parts)

\* the byte string o spells the option name, in upper or lower case
Spells(o, name) == CleanCommand(o) = name

IsSyntaxError(r) == r.type = "Error" /\ r.data = <<"ERR", "syntax error">>

IsOK(r) == SameResult(r, OK)

(***************************************************************************)
(* C6: SET k v NX on a key that is active replies Null Bulk String and     *)
(* leaves the DB as it is, and so does SET k v XX on a key that is absent  *)
(* or expired; NX on an absent or expired key and XX on an active key      *)
(* write the value and reply OK.                                           *)
(***************************************************************************)
C6_NxAndXx ==
    [][IsSetStep /\ Len(StepOptions) = 1 =>
        /\ Spells(StepOptions[1], NX) =>
              IF Active(StepDB, StepKey, clock)
              THEN IsNull(last'.result) /\ dbs' = dbs
              ELSE IsOK(last'.result) /\ DictGet(StepDBAfter.kv, StepKey) = Some(StepValue)
        /\ Spells(StepOptions[1], XX) =>
              IF ~Active(StepDB, StepKey, clock)
              THEN IsNull(last'.result) /\ dbs' = dbs
              ELSE IsOK(last'.result) /\ DictGet(StepDBAfter.kv, StepKey) = Some(StepValue)
      ]_vars

(***************************************************************************)
(* C7: after a SET that replied OK, PX n has left the TTL entry of the key *)
(* at now + n ms and EX n at now + n * 1000 ms, for every integer n, 0     *)
(* included: the key is without TTL only when neither was given.           *)
(***************************************************************************)
C7_ExpiryOfOperand ==
    LastIs(SET) /\ IsOK(last.result) /\ Len(OptionsOf(last.cmd_parts)) = 2
    /\ OptionsOf(last.cmd_parts)[1] \in {EX, PX}
    /\ ensure_int(OptionsOf(last.cmd_parts)[2]).ok
    => /\ last.cmd_parts[2] \in DOMAIN LastDB._expiration_key_finder
       /\ LastDB._expiration_key_finder[last.cmd_parts[2]].expires_at
             = clock + OptionMilliseconds(OptionsOf(last.cmd_parts))

(***************************************************************************)
(* C8: a SET with both NX and XX, or with both EX and PX whatever their    *)
(* integer operands, replies with a syntax error and writes nothing.       *)
(***************************************************************************)
C8_ExclusiveOptions ==
    [][IsSetStep
       /\ \/ {NX, XX} \subseteq {StepOptions[i] : i \in 1..Len(StepOptions)}
          \/ /\ Len(StepOptions) = 4
             /\ StepOptions[1] = EX /\ ensure_int(StepOptions[2]).ok
             /\ StepOptions[3] = PX /\ ensure_int(StepOptions[4]).ok
       => IsSyntaxError(last'.result) /\ dbs' = dbs]_vars

(***************************************************************************)
(* C9: a SET whose options end with an option it does not have, or with EX *)
(* or PX without an operand, is answered with one syntax error, writes     *)
(* nothing, and leaves the connection open.                                *)
(***************************************************************************)
C9_MalformedOptions ==
    [][IsSetStep /\ Len(StepOptions) >= 1
       /\ StepOptions[Len(StepOptions)] \in {Unknown, EX, PX}
       /\ (Len(StepOptions) = 2 => StepOptions[1] \notin {EX, PX})
       => /\ IsSyntaxError(last'.result)
          /\ dbs' = dbs
          /\ connections'[last'.connection].open]_vars

(***************************************************************************)
(* C10: a SET with its options in upper case gives the reply and the       *)
(* storage that the same SET with the options in lower case gives.         *)
(***************************************************************************)
\* cmd_parts with the options of the SET in lower case
LowerOptions(cmd_parts) ==
    [i \in 1..Len(cmd_parts) |->
        IF i >= 4 THEN CleanCommand(cmd_parts[i]) ELSE cmd_parts[i]]

C10_OptionCase ==
    [][IsSetStep /\ LowerOptions(last'.cmd_parts) # last'.cmd_parts =>
        LET lower == process_command(LowerOptions(last'.cmd_parts), last'.connection,
                                     connections[last'.connection], dbs, pubsub, clock)
        IN  SameResult(last'.result, lower.result) /\ dbs' = lower.dbs]_vars

(***************************************************************************)
(* SpecMset: MSET with every arity, after SETs that gave keys a TTL.       *)
(***************************************************************************)
\* the arguments of MSET in the runs of SpecMset
MsetArgs ==
    {<<>>, <<<<"a">>>>, <<<<"a">>, <<"1">>>>, <<<<>>, <<"2">>>>,
     <<<<"a">>, <<"1">>, <<>>>>, <<<<"a">>, <<"2">>, <<>>, <<"1">>>>,
     <<<<"a">>, <<"1">>, <<"a">>, <<"2">>>>}

SetPx(c) == \E k \in Keys : Command(c, <<SET, k, <<"1">>, PX, <<"1">>>>)

MSetAll(c) == \E args \in MsetArgs : Command(c, <<MSET>> \o args)

NextMset ==
    \/ \E c \in Conns : SetPx(c) /\ CountBound'
    \/ \E c \in Conns : MSetAll(c)
    \/ \E c \in Conns : Get(c)
    \/ PeriodicTask
    \/ Tick

SpecMset == Init /\ [][NextMset]_vars

(***************************************************************************)
(* C11: MSET with no argument or an odd number of arguments replies the    *)
(* wrong-number-of-arguments error and changes nothing in the storage;     *)
(* with pairs it replies OK, every key has the value of its last pair and  *)
(* no TTL entry, and a GET of a key whose last write was an MSET returns a *)
(* Bulk String whatever expiry the key had before.                         *)
(***************************************************************************)
C11_MsetStep ==
    IsCommandStep /\ last'.cmd_parts[1] = MSET =>
        LET cmd_parts == last'.cmd_parts
            db == dbs'[connections[last'.connection].db_index]
        IN  IF Len(cmd_parts) = 1 \/ (Len(cmd_parts) - 1) % 2 # 0
            THEN /\ last'.result = WrongNumberOfArgumentsError(MSET)
                 /\ dbs' = dbs
            ELSE /\ IsOK(last'.result)
                 /\ \A k \in WrittenKeys(cmd_parts) :
                       /\ DictGet(db.kv, k) = Some(WrittenValue(cmd_parts, k))
                       /\ k \notin DOMAIN db._expiration_key_finder

C11_ReadableAfterMset ==
    LastIs(GET) /\ HasLastWrite(last.cmd_parts[2])
    /\ LastWriteOf(last.cmd_parts[2]).kind = "mset"
    => IsBulk(last.result, LastDB.kv[last.cmd_parts[2]])

C11_Mset == []C11_ReadableAfterMset /\ [][C11_MsetStep]_vars

\* a GET that returns a key written by MSET, the only key ever written,
\* after the expiry instant that an earlier SET had given it and after the
\* expirer emptied the heap
C11_Witness ==
    /\ last.cmd_parts = <<GET, <<"a">>>>
    /\ HasLastWrite(<<"a">>)
    /\ LastWriteOf(<<"a">>).kind = "mset"
    /\ ~HasLastWrite(<<>>)
    /\ LastDB._expiration_counter > 0
    /\ LastDB.expiration_pq = {}
    /\ clock > 0
    /\ last.result.type = "BulkString"

(***************************************************************************)
(* SpecSelect: SELECT with indexes inside and outside the range, and the   *)
(* reads and writes of one key under the selected index.                   *)
(***************************************************************************)
\* the arguments of SELECT in the runs of SpecSelect
SelectArgs == {<<"-", "1">>, <<"0">>, <<"1", "5">>, <<"1", "6">>, <<"1", "7">>}

Select(c) == \E n \in SelectArgs : Command(c, <<SELECT, n>>)

SetPlain(c) == \E k \in SetKeys, v \in Values : Command(c, <<SET, k, v>>)

MSetOne(c) == \E k \in SetKeys : Command(c, <<MSET, k, <<"1">>>>)

GetOne(c) == \E k \in SetKeys : Command(c, <<GET, k>>)

NextSelect ==
    \/ \E c \in Conns : Select(c)
    \/ \E c \in Conns : SetPlain(c)
    \/ \E c \in Conns : MSetOne(c)
    \/ \E c \in Conns : GetOne(c)
    \/ \E c \in Conns : MGet(c)
    \/ \E c \in Conns : KeysCmd(c)

SpecSelect == Init /\ [][NextSelect]_vars

(***************************************************************************)
(* C12: SELECT n with an integer n replies OK and sets db_index to n when  *)
(* 0 <= n < 16, and replies ERR invalid DB index and leaves db_index as it *)
(* is otherwise; so the db_index of a connection is always the index of a  *)
(* DB of the storage.                                                      *)
(***************************************************************************)
C12_SelectStep ==
    IsCommandStep /\ last'.cmd_parts[1] = SELECT /\ Len(last'.cmd_parts) = 2
    /\ ensure_int(last'.cmd_parts[2]).ok
    => LET n == ensure_int(last'.cmd_parts[2]).value
           c == last'.connection
       IN  IF 0 <= n /\ n < 16
           THEN IsOK(last'.result) /\ connections'[c].db_index = n
           ELSE /\ SameResult(last'.result, RedisError("invalid DB index"))
                /\ connections'[c].db_index = connections[c].db_index

C12_IndexInRange == \A c \in DOMAIN connections : connections[c].db_index \in 0..15

C12_Select == []C12_IndexInRange /\ [][C12_SelectStep]_vars

(***************************************************************************)
(* C13: a SET or MSET on a connection that has selected index i leaves     *)
(* every DB j # i as it is, and a GET, MGET or KEYS returns only keys that *)
(* were written under the index that its connection has selected.          *)
(***************************************************************************)
C13_WriteStep ==
    IsCommandStep /\ last'.cmd_parts[1] \in {SET, MSET} =>
        \A j \in DOMAIN dbs :
            j # connections[last'.connection].db_index => dbs'[j] = dbs[j]

C13_ReadsOwnDB ==
    /\ LastIs(GET) /\ last.result.type = "BulkString" => HasLastWrite(last.cmd_parts[2])
    /\ LastIs(MGET) /\ last.result.type = "Array" =>
          \A i \in 1..Len(last.result.data) :
              ~IsNull(last.result.data[i]) => HasLastWrite(last.cmd_parts[i + 1])
    /\ LastIs(KEYS) /\ last.result.type = "Array" =>
          \A i \in 1..Len(last.result.data) : HasLastWrite(last.result.data[i].data)

C13_Isolation == []C13_ReadsOwnDB /\ [][C13_WriteStep]_vars

\* a read under index 15 that does not return the key written under index 0
C13_Witness ==
    /\ connections["c1"].db_index = 15
    /\ <<"a">> \in DOMAIN dbs[0].kv
    /\ <<"a">> \notin DOMAIN dbs[15].kv
    /\ \/ last.cmd_parts = <<GET, <<"a">>>> /\ IsNull(last.result)
       \/ LastIs(MGET) /\ last.result.type = "Array" /\ IsNull(last.result.data[2])
       \/ LastIs(KEYS) /\ last.result.type = "Array" /\ last.result.data = <<>>

(***************************************************************************)
(* SpecKeys: KEYS with glob patterns over keys of several shapes, some     *)
(* with a TTL.                                                             *)
(***************************************************************************)
\* the keys and the patterns in the runs of SpecKeys
GlobKeys == {<<"a">>, <<".">>, <<"a", "b">>, <<"\n">>}

GlobPatterns == {<<"*">>, <<"?">>, <<".">>, <<"a">>, <<"a", "*">>, <<"\\", "*">>}

SetGlobKey(c) == \E k \in GlobKeys : Command(c, <<SET, k, <<"1">>>>)

KeysGlob(c) == \E p \in GlobPatterns : Command(c, <<KEYS, p>>)

NextKeys ==
    \/ \E c \in Conns : SetGlobKey(c)
    \/ \E c \in Conns : SetPx(c) /\ CountBound'
    \/ \E c \in Conns : KeysGlob(c)
    \/ PeriodicTask
    \/ Tick

SpecKeys == Init /\ [][NextKeys]_vars

(***************************************************************************)
(* C14: KEYS pattern returns exactly the keys of the DB of the connection  *)
(* that are active at now and whose whole name matches the glob: an        *)
(* unescaped `*` stands for any run of characters, an unescaped `?` for    *)
(* exactly one character, every other character for itself.               *)
(***************************************************************************)
\* the glob p from position i on matches the whole of s from position j on
RECURSIVE GlobMatch(_, _, _, _)
GlobMatch(p, i, s, j) ==
    IF i > Len(p) THEN j > Len(s)
    ELSE IF p[i] = "\\" /\ i < Len(p)
    THEN j <= Len(s) /\ s[j] = p[i + 1] /\ GlobMatch(p, i + 2, s, j + 1)
    ELSE IF p[i] = "*"
    THEN GlobMatch(p, i + 1, s, j) \/ (j <= Len(s) /\ GlobMatch(p, i, s, j + 1))
    ELSE IF p[i] = "?"
    THEN j <= Len(s) /\ GlobMatch(p, i + 1, s, j + 1)
    ELSE j <= Len(s) /\ s[j] = p[i] /\ GlobMatch(p, i + 1, s, j + 1)

C14_KeysGlob ==
    LastIs(KEYS) /\ Len(last.cmd_parts) = 2 =>
        /\ last.result.type = "Array"
        /\ {last.result.data[i].data : i \in 1..Len(last.result.data)}
              = {k \in DOMAIN LastDB.kv :
                    Active(LastDB, k, clock) /\ GlobMatch(last.cmd_parts[2], 1, k, 1)}

(***************************************************************************)
(* Two connections, and the writes of the pool.                            *)
(***************************************************************************)
TwoConns == {"c1", "c2"}

InitTwo ==
    /\ dbs = Storage
    /\ connections = [c \in TwoConns |-> Connection]
    /\ clock = 0
    /\ periodic_task_alive = TRUE
    /\ last = NoCommand
    /\ lastWrite = EmptyDict
    /\ pubsub = PubSubHandler
    /\ write_pool = <<>>
    /\ stream = [c \in DOMAIN connections |-> Stream(<<>>, <<>>)]
    /\ sock = [c \in DOMAIN connections |-> Socket]

\* server.Connection.write, run by a greenlet of the write pool: the write
\* leaves the pool, whether the socket took it or was closed
Write ==
    \E i \in 1..Len(write_pool) :
        /\ write_pool' = SubSeq(write_pool, 1, i - 1)
                            \o SubSeq(write_pool, i + 1, Len(write_pool))
        /\ pubsub' = collect(pubsub, connections, write_pool')
        /\ last' = NoCommand
        /\ UNCHANGED <<dbs, connections, clock, periodic_task_alive, lastWrite,
                       stream, sock>>

PoolBound == Len(write_pool) <= MaxPool

(***************************************************************************)
(* SpecMode: connection c1 sends the commands of both handlers, in normal  *)
(* and in pubsub mode, well-formed and not; connection c2 reads a key and  *)
(* sends a SET that raises IndexError.                                     *)
(***************************************************************************)
QUIT == <<"q", "u", "i", "t">>

\* a verb that no handler has
Foo == <<"f", "o", "o">>

PubSubCommands ==
    {<<SUBSCRIBE, <<"a">>>>, <<SUBSCRIBE>>, <<UNSUBSCRIBE>>, <<UNSUBSCRIBE, <<"b">>>>,
     <<PSUBSCRIBE, <<"*">>>>, <<PUNSUBSCRIBE>>,
     <<PUBLISH, <<"a">>, <<"m">>>>,
     <<PUBSUB, NUMPAT>>, <<PUBSUB, Foo>>, <<PUBSUB, NUMSUB, <<"a">>>>}

StorageCommands ==
    {<<GET, <<"a">>>>, <<SET, <<"a">>, <<"1">>>>, <<MGET, <<"a">>>>,
     <<MSET, <<"a">>, <<"2">>>>, <<KEYS, <<"*">>>>, <<SELECT, <<"1">>>>, <<INFO>>}

OtherCommands == {<<PING>>, <<QUIT>>, <<Foo>>}

\* commands that a handler answers with an error of its own
FailingCommands ==
    {<<SET, <<"a">>, <<"1">>, NX, XX>>, <<SELECT, <<"z">>>>, <<SELECT, <<"-", "1">>>>,
     <<GET>>, <<SET, <<"a">>, <<"1">>, EX>>}

PubSubCmd(c) ==
    \E cmd_parts \in PubSubCommands :
        connection_handler(c, cmd_parts) /\ UNCHANGED lastWrite

StorageCmd(c) ==
    \E cmd_parts \in StorageCommands :
        connection_handler(c, cmd_parts) /\ UNCHANGED lastWrite

OtherCmd(c) ==
    \E cmd_parts \in OtherCommands :
        connection_handler(c, cmd_parts) /\ UNCHANGED lastWrite

FailingCmd(c) ==
    \E cmd_parts \in FailingCommands :
        connection_handler(c, cmd_parts) /\ UNCHANGED lastWrite

Peer(c) ==
    \E cmd_parts \in {<<GET, <<"a">>>>, <<SET, <<"a">>, <<"2">>, EX>>} :
        connection_handler(c, cmd_parts) /\ UNCHANGED lastWrite

NextMode ==
    \/ PubSubCmd("c1") /\ PoolBound'
    \/ StorageCmd("c1")
    \/ OtherCmd("c1")
    \/ FailingCmd("c1")
    \/ Peer("c2")
    \/ Write

SpecMode == InitTwo /\ [][NextMode]_vars

(***************************************************************************)
(* The steps that process a command, for the claims on the modes.          *)
(***************************************************************************)
\* the connection of the step, and the verb of its command in lower case
StepConn == last'.connection

StepVerb == CleanCommand(last'.cmd_parts[1])

\* the channels plus the patterns that indices have for connection c
Total(indices, c) ==
    (IF c \in DOMAIN indices._connection_channel_map
        THEN Cardinality(indices._connection_channel_map[c]) ELSE 0)
    + (IF c \in DOMAIN indices._connection_pattern_channel_map
          THEN Cardinality(indices._connection_pattern_channel_map[c]) ELSE 0)

(***************************************************************************)
(* C15: a SUBSCRIBE or PSUBSCRIBE that a connection in normal mode sends   *)
(* and that returns its subscription responses leaves the connection in    *)
(* pubsub mode.                                                            *)
(***************************************************************************)
C15_EntersPubSub ==
    [][IsCommandStep /\ StepVerb \in {SUBSCRIBE, PSUBSCRIBE}
       /\ connections[StepConn].state = "normal"
       /\ last'.result.type = "MultipleResponses"
       => connections'[StepConn].state = "pubsub"]_vars

(***************************************************************************)
(* C16: a connection in pubsub mode is in normal mode after a step exactly *)
(* when the step is an UNSUBSCRIBE or PUNSUBSCRIBE of that connection that *)
(* leaves it with no channel and no pattern; after any other step, and     *)
(* after one that leaves a channel or a pattern, it is still in pubsub     *)
(* mode.                                                                   *)
(***************************************************************************)
C16_LeavesPubSub ==
    [][\A c \in DOMAIN connections :
        connections[c].state = "pubsub" =>
            (connections'[c].state = "normal"
                <=> /\ IsCommandStep
                    /\ StepConn = c
                    /\ StepVerb \in {UNSUBSCRIBE, PUNSUBSCRIBE}
                    /\ Total(pubsub', c) = 0)]_vars

\* an UNSUBSCRIBE without argument that took the connection from its one
\* channel, and so from pubsub mode
C16_Witness ==
    /\ last.cmd_parts = <<UNSUBSCRIBE>>
    /\ last.result.type = "MultipleResponses"
    /\ Len(last.result.data) = 1
    /\ Total(pubsub, last.connection) = 0
    /\ connections[last.connection].state = "normal"

(***************************************************************************)
(* C17: the command of a connection in pubsub mode with one of the verbs   *)
(* GET, SET, MGET, MSET, KEYS, SELECT, INFO is answered with the error     *)
(* `only (P)SUBSCRIBE / (P)UNSUBSCRIBE / PING / QUIT allowed in this       *)
(* context` and changes nothing; with one of the verbs SUBSCRIBE,          *)
(* UNSUBSCRIBE, PSUBSCRIBE, PUNSUBSCRIBE, PUBLISH, PUBSUB, PING, QUIT it   *)
(* is not answered with that error but with what the same command gets in  *)
(* normal mode.                                                            *)
(***************************************************************************)
C17_PubSubMode ==
    [][IsCommandStep /\ connections[StepConn].state = "pubsub" =>
        /\ StepVerb \in {GET, SET, MGET, MSET, KEYS, SELECT, INFO} =>
              /\ SameResult(last'.result, PubSubOnly)
              /\ dbs' = dbs
              /\ connections' = connections
              /\ pubsub' = pubsub
              /\ write_pool' = write_pool
        /\ StepVerb \in PUB_SUB_COMMANDS \cup {PING, QUIT} =>
              /\ ~SameResult(last'.result, PubSubOnly)
              /\ SameResult(last'.result,
                    process_command_open(last'.cmd_parts, StepConn,
                        connections[StepConn], dbs, pubsub, clock).result)
      ]_vars

\* a SET that a connection in pubsub mode sent: rejected, the key not written
C17_Witness ==
    /\ last.cmd_parts = <<SET, <<"a">>, <<"1">>>>
    /\ SameResult(last.result, PubSubOnly)
    /\ connections[last.connection].state = "pubsub"
    /\ <<"a">> \notin DOMAIN dbs[0].kv

(***************************************************************************)
(* C18: QUIT, in normal and in pubsub mode, is answered with the Simple    *)
(* String OK and closes the connection, which processes no command after   *)
(* it.                                                                     *)
(***************************************************************************)
C18_Quit ==
    [][IsCommandStep /\ StepVerb = QUIT =>
        /\ IsOK(last'.result)
        /\ ~connections'[StepConn].open]_vars

(***************************************************************************)
(* C19: a command that has a protocol error is answered with that error as *)
(* its one reply and its connection stays open; an exception that is not a *)
(* protocol error closes the connection of the command and leaves the      *)
(* other connections and the storage as they are.                          *)
(***************************************************************************)
\* the protocol error that the command of the step has, if it has one
StepError ==
    LET cmd_parts == last'.cmd_parts
    IN  IF StepVerb = Foo THEN Some(UnknownCommandError(cmd_parts[1]))
        ELSE IF connections[StepConn].state = "pubsub"
                /\ StepVerb \in {GET, SET, MGET, MSET, KEYS, SELECT, INFO}
        THEN Some(PubSubOnly)
        ELSE IF cmd_parts \in {<<SUBSCRIBE>>, <<GET>>}
        THEN Some(WrongNumberOfArgumentsError(cmd_parts[1]))
        ELSE IF cmd_parts = <<SET, <<"a">>, <<"1">>, NX, XX>> THEN Some(CommandSyntaxError)
        ELSE IF cmd_parts = <<SELECT, <<"z">>>> THEN Some(NotAnInteger)
        ELSE IF cmd_parts = <<SELECT, <<"-", "1">>>>
        THEN Some(RedisError("invalid DB index"))
        ELSE IF cmd_parts = <<PUBSUB, Foo>> THEN Some(UnknownSubcommandError(Foo))
        ELSE None

C19_Errors ==
    [][IsCommandStep =>
        /\ StepError # None =>
              /\ SameResult(last'.result, StepError[1])
              /\ dbs' = dbs
        /\ last'.result.type = "Error" => connections'[StepConn].open
        /\ last'.result.type = "Raised" =>
              /\ ~connections'[StepConn].open
              /\ dbs' = dbs
              /\ \A c \in DOMAIN connections :
                    c # StepConn => connections'[c] = connections[c]
      ]_vars

\* connection c2 reads the key that c1 wrote, after an exception closed c1
C19_Witness ==
    /\ ~connections["c1"].open
    /\ connections["c2"].open
    /\ last.connection = "c2"
    /\ last.cmd_parts = <<GET, <<"a">>>>
    /\ last.result.type = "BulkString"

(***************************************************************************)
(* SpecPublish: two connections subscribe to channels and patterns and     *)
(* publish on one channel.                                                 *)
(***************************************************************************)
Subscribe(c) ==
    \E channel \in {<<"a">>, <<"b">>} :
        connection_handler(c, <<SUBSCRIBE, channel>>) /\ UNCHANGED lastWrite

PSubscribe(c) ==
    \E pattern \in {<<"*">>, <<"b">>} :
        connection_handler(c, <<PSUBSCRIBE, pattern>>) /\ UNCHANGED lastWrite

Unsubscribe(c) == connection_handler(c, <<UNSUBSCRIBE>>) /\ UNCHANGED lastWrite

Publish(c) ==
    connection_handler(c, <<PUBLISH, <<"a">>, <<"m">>>>) /\ UNCHANGED lastWrite

NextPublish ==
    \/ \E c \in TwoConns : Subscribe(c)
    \/ \E c \in TwoConns : PSubscribe(c)
    \/ \E c \in TwoConns : Unsubscribe(c)
    \/ \E c \in TwoConns : Publish(c) /\ PoolBound'
    \/ Write

SpecPublish == InitTwo /\ [][NextPublish]_vars

(***************************************************************************)
(* C20: PUBLISH channel message replies the Integer that is the number of  *)
(* writes it adds to the write pool: one for every connection that has     *)
(* subscribed to the channel and one for every pair of a connection and a  *)
(* pattern of that connection that matches the channel (the patterns of    *)
(* the runs are `*` and a channel name), and no other write.               *)
(***************************************************************************)
\* the connections that have channel among their channels
SubscribedTo(channel) ==
    {c \in DOMAIN pubsub._connection_channel_map :
        channel \in pubsub._connection_channel_map[c]}

\* the patterns of connection c that match channel
MatchingPatterns(c, channel) ==
    IF c \in DOMAIN pubsub._connection_pattern_channel_map
    THEN {p \in pubsub._connection_pattern_channel_map[c] : GlobMatch(p, 1, channel, 1)}
    ELSE {}

\* the sum of f over the set S
RECURSIVE SumOver(_, _)
SumOver(f, S) ==
    IF S = {} THEN 0
    ELSE LET x == CHOOSE y \in S : TRUE IN f[x] + SumOver(f, S \ {x})

C20_PublishCount ==
    [][IsCommandStep /\ StepVerb = PUBLISH /\ Len(last'.cmd_parts) = 3 =>
        LET channel == last'.cmd_parts[2]
            added == SubSeq(write_pool', Len(write_pool) + 1, Len(write_pool'))
            due == [c \in DOMAIN connections |->
                        (IF c \in SubscribedTo(channel) THEN 1 ELSE 0)
                        + Cardinality(MatchingPatterns(c, channel))]
        IN  /\ SubSeq(write_pool', 1, Len(write_pool)) = write_pool
            /\ last'.result.type = "Integer"
            /\ last'.result.data = Len(added)
            /\ last'.result.data = SumOver(due, DOMAIN connections)
            /\ \A c \in DOMAIN connections :
                  Cardinality({i \in 1..Len(added) : added[i].connection = c}) = due[c]
      ]_vars

\* a PUBLISH on channel a that counted and spawned one write, for c1, while
\* c2 has subscribed to channel b and to the pattern b
C20_Witness ==
    /\ last.cmd_parts = <<PUBLISH, <<"a">>, <<"m">>>>
    /\ last.result.type = "Integer"
    /\ last.result.data = 1
    /\ Len(write_pool) = 1
    /\ write_pool[1].connection = "c1"
    /\ "c2" \in DOMAIN pubsub._connection_channel_map
    /\ pubsub._connection_channel_map["c2"] = {<<"b">>}
    /\ pubsub._connection_pattern_channel_map["c2"] = {<<"b">>}

(***************************************************************************)
(* C21: every write that PUBLISH channel message adds to the write pool    *)
(* carries, for a connection subscribed to the channel, the Array          *)
(* [message, channel, message] of three Bulk Strings and, for a pattern P  *)
(* of the connection that matches the channel, the Array                   *)
(* [pmessage, P, channel, message] of four Bulk Strings.                   *)
(***************************************************************************)
\* the frame for a subscriber of channel
MessageFrame(channel, message) ==
    RedisArray(<<RedisBulkString(MESSAGE), RedisBulkString(channel),
                 RedisBulkString(message)>>)

\* the frame for a connection whose pattern matches channel
PMessageFrame(pattern, channel, message) ==
    RedisArray(<<RedisBulkString(PMESSAGE), RedisBulkString(pattern),
                 RedisBulkString(channel), RedisBulkString(message)>>)

C21_PublishFrames ==
    [][IsCommandStep /\ StepVerb = PUBLISH /\ Len(last'.cmd_parts) = 3 =>
        LET channel == last'.cmd_parts[2]
            message == last'.cmd_parts[3]
            added == SubSeq(write_pool', Len(write_pool) + 1, Len(write_pool'))
        IN  \A i \in 1..Len(added) :
                \/ /\ added[i].connection \in SubscribedTo(channel)
                   /\ added[i].data = MessageFrame(channel, message)
                \/ \E P \in MatchingPatterns(added[i].connection, channel) :
                       added[i].data = PMessageFrame(P, channel, message)
      ]_vars

(***************************************************************************)
(* C22: PUBSUB NUMPAT replies the Integer that is the sum, over the        *)
(* connections, of the number of patterns of the connection, whatever      *)
(* has been subscribed before, and the connection that sent it stays open. *)
(***************************************************************************)
\* the number of patterns of connection c
NumPatterns(c) ==
    IF c \in DOMAIN pubsub._connection_pattern_channel_map
    THEN Cardinality(pubsub._connection_pattern_channel_map[c])
    ELSE 0

C22_Numpat ==
    [][IsCommandStep /\ last'.cmd_parts = <<PUBSUB, NUMPAT>> =>
        /\ last'.result.type = "Integer"
        /\ last'.result.data =
               SumOver([c \in DOMAIN connections |-> NumPatterns(c)], DOMAIN connections)
        /\ connections'[StepConn].open
      ]_vars

(***************************************************************************)
(* SpecDisconnect: two connections subscribe, publish, ask for NUMSUB and  *)
(* end, by the end of their input or by an exception of a command.         *)
(***************************************************************************)
\* recv returns b'' before a frame: command_stream returns, the handler
\* closes the socket and drops its reference to the Connection
Eof(c) ==
    /\ connections[c].open
    /\ connections' = [connections EXCEPT ![c].open = FALSE]
    /\ pubsub' = collect(pubsub, connections', write_pool)
    /\ last' = NoCommand
    /\ UNCHANGED <<dbs, clock, periodic_task_alive, write_pool, lastWrite, stream, sock>>

Numsub(c) ==
    connection_handler(c, <<PUBSUB, NUMSUB, <<"a">>>>) /\ UNCHANGED lastWrite

\* a command that ends the connection once something has been subscribed
Numpat(c) ==
    connection_handler(c, <<PUBSUB, NUMPAT>>) /\ UNCHANGED lastWrite

NextDisconnect ==
    \/ \E c \in TwoConns : Subscribe(c)
    \/ \E c \in TwoConns : PSubscribe(c)
    \/ \E c \in TwoConns : Publish(c) /\ PoolBound'
    \/ \E c \in TwoConns : Numsub(c)
    \/ \E c \in TwoConns : Numpat(c)
    \/ \E c \in TwoConns : Eof(c)
    \/ Write

SpecDisconnect == InitTwo /\ [][NextDisconnect]_vars

(***************************************************************************)
(* C23: a connection whose handler has exited is in the subscriber set of  *)
(* no channel and has no entry in the channel and pattern maps; a PUBLISH  *)
(* after that adds no write for it and counts the open subscribers only,   *)
(* and PUBSUB NUMSUB counts the open subscribers only.                     *)
(***************************************************************************)
\* the connections whose handler has exited
Exited == {c \in DOMAIN connections : ~connections[c].open}

C23_NoEntryAfterExit ==
    \A c \in Exited :
        /\ c \notin DOMAIN pubsub._connection_channel_map
        /\ c \notin DOMAIN pubsub._connection_pattern_channel_map
        /\ \A channel \in DOMAIN pubsub._channel_subscriptions :
                c \notin pubsub._channel_subscriptions[channel]

C23_PublishStep ==
    IsCommandStep /\ StepVerb = PUBLISH /\ Len(last'.cmd_parts) = 3 =>
        LET channel == last'.cmd_parts[2]
            added == SubSeq(write_pool', Len(write_pool) + 1, Len(write_pool'))
            due == [c \in DOMAIN connections |->
                        IF c \in Exited THEN 0
                        ELSE (IF c \in SubscribedTo(channel) THEN 1 ELSE 0)
                             + Cardinality(MatchingPatterns(c, channel))]
        IN  /\ \A i \in 1..Len(added) : added[i].connection \notin Exited
            /\ last'.result.type = "Integer"
            /\ last'.result.data = SumOver(due, DOMAIN connections)

C23_NumsubStep ==
    IsCommandStep /\ StepVerb = PUBSUB /\ Len(last'.cmd_parts) = 3
                  /\ last'.cmd_parts[2] = NUMSUB =>
        /\ last'.result.type = "Array"
        /\ Len(last'.result.data) = 2
        /\ last'.result.data[2] =
               RedisInteger(Cardinality(SubscribedTo(last'.cmd_parts[3]) \ Exited))

C23_Disconnect ==
    []C23_NoEntryAfterExit /\ [][C23_PublishStep /\ C23_NumsubStep]_vars

(***************************************************************************)
(* data.RedisData.to_resp: the bytes of a response.                        *)
(***************************************************************************)
CRLF == <<"\r", "\n">>

\* str(n).encode() of a natural number
RECURSIVE NatBytes(_)
NatBytes(n) ==
    IF n < 10 THEN <<Digits[n + 1]>>
    ELSE NatBytes(n \div 10) \o <<Digits[(n % 10) + 1]>>

\* str(n).encode()
IntBytes(n) == IF n < 0 THEN <<"-">> \o NatBytes(0 - n) ELSE NatBytes(n)

\* the text '-%s %s' of an error, the words of its message kept whole
ErrorBytes(data) ==
    IF Len(data) = 2 THEN <<"-", data[1], " ", data[2]>>
    ELSE <<"-", data[1], " ", data[2], " '">> \o data[3] \o <<"'">>

RECURSIVE to_resp(_)
RECURSIVE JoinResp(_, _)
\* b''.join(i.to_resp() for i in items) from items[i] on
JoinResp(items, i) ==
    IF i > Len(items) THEN <<>> ELSE to_resp(items[i]) \o JoinResp(items, i + 1)

to_resp(d) ==
    CASE d.type = "String" -> <<"+">> \o d.data \o CRLF
      [] d.type = "BulkString" ->
            <<"$">> \o IntBytes(Len(d.data)) \o CRLF \o d.data \o CRLF
      [] d.type = "NullBulkString" -> <<"$", "-", "1">> \o CRLF
      [] d.type = "Integer" -> <<":">> \o IntBytes(d.data) \o CRLF
      [] d.type = "Array" ->
            <<"*">> \o IntBytes(Len(d.data)) \o CRLF \o JoinResp(d.data, 1)
      [] d.type = "MultipleResponses" -> JoinResp(d.data, 1)
      [] d.type = "Error" -> ErrorBytes(d.data) \o CRLF

(***************************************************************************)
(* server.Connection.command_stream: the generator runs from one recv to   *)
(* the next, to its yield, to its return or to an exception.  pc names     *)
(* the place where it is:                                                  *)
(*   top     read() of line 51                                             *)
(*   elem    ensure_buffer() of line 68, the buffer being empty            *)
(*   crlf    ensure_buffer of line 43, the buffer holding no CRLF          *)
(*   bulk    ensure_buffer(str_len + 2) of line 87                         *)
(*   yield   line 104, parts being the command                             *)
(*   return  lines 52 and 69                                               *)
(*   raise   an assert, int() or raise has left the generator              *)
(***************************************************************************)
\* an index of a slice of a sequence of length n, as Python takes it
SliceIndex(i, n) ==
    IF i < 0 THEN (IF n + i < 0 THEN 0 ELSE n + i)
    ELSE IF i > n THEN n ELSE i

\* b[lo:hi]
Slice(b, lo, hi) == SubSeq(b, SliceIndex(lo, Len(b)) + 1, SliceIndex(hi, Len(b)))

\* b[lo:]
SliceFrom(b, lo) == Slice(b, lo, Len(b))

\* b.find(b'\r\n')
find_crlf(b) ==
    LET found == {i \in 1..(Len(b) - 1) : b[i] = "\r" /\ b[i + 1] = "\n"}
    IN  IF found = {} THEN 0 - 1
        ELSE (CHOOSE i \in found : \A j \in found : i <= j) - 1

\* an int among the parts of a command
PyInt(n) == <<ToString(n)>>

StreamRaise(s, name) == [s EXCEPT !.pc = "raise", !.exc = name]

RECURSIVE ReadParts(_)
\* lines 88 to 90: the payload of a bulk string is cut out of the buffer as
\* it is, after the one read of ensure_buffer
ReadBulk(s) ==
    ReadParts([s EXCEPT !.parts = Append(@, Slice(s.buffer, 0, s.str_len)),
                        !.buffer = SliceFrom(s.buffer, s.str_len + 2)])

\* the for loop of lines 67 to 95 from element Len(parts) on, then lines 97
\* to 104
ReadParts(s) ==
    IF Len(s.parts) = s.array_len THEN [s EXCEPT !.pc = "yield"]
    ELSE IF s.buffer = <<>> THEN [s EXCEPT !.pc = "elem"]
    ELSE
    LET t == s.buffer[1]
        crlf_pos == find_crlf(s.buffer)
        line == Slice(s.buffer, 1, crlf_pos)
        rest == SliceFrom(s.buffer, crlf_pos + 2)
        n == ensure_int(line)
    IN  IF t \notin {"+", "-", ":", "$"} THEN StreamRaise(s, "Exception")
        ELSE IF crlf_pos = 0 - 1 THEN [s EXCEPT !.pc = "crlf"]
        ELSE IF t \in {"+", "-"}
        THEN ReadParts([s EXCEPT !.buffer = rest, !.parts = Append(@, line)])
        ELSE IF ~n.ok THEN StreamRaise([s EXCEPT !.buffer = rest], "ValueError")
        ELSE IF t = ":"
        THEN ReadParts([s EXCEPT !.buffer = rest, !.parts = Append(@, PyInt(n.value))])
        ELSE LET s1 == [s EXCEPT !.buffer = rest, !.str_len = n.value]
             IN  IF Len(rest) >= n.value + 2 THEN ReadBulk(s1)
                 ELSE [s1 EXCEPT !.pc = "bulk"]

\* lines 54 to 66, after a read that took bytes
ReadHeader(s) ==
    LET crlf_pos == find_crlf(s.buffer)
        n == ensure_int(Slice(s.buffer, 1, crlf_pos))
        s1 == [s EXCEPT !.buffer = SliceFrom(s.buffer, crlf_pos + 2),
                        !.array_len = n.value, !.parts = <<>>]
    IN  IF s.buffer[1] # "*" THEN StreamRaise(s, "AssertionError")
        ELSE IF crlf_pos = 0 - 1 THEN [s EXCEPT !.pc = "top"]
        ELSE IF ~n.ok THEN StreamRaise(s, "ValueError")
        ELSE IF n.value = 0 THEN [s1 EXCEPT !.pc = "top"]
        ELSE IF n.value < 0 THEN StreamRaise(s1, "AssertionError")
        ELSE ReadParts(s1)

\* the generator, waiting in recv at s.pc, takes chunk (b'' at the end of
\* the input) and runs on
command_stream(s, chunk) ==
    LET s1 == [s EXCEPT !.buffer = @ \o chunk]
    IN  CASE s.pc = "top" ->
                IF chunk = <<>> THEN [s EXCEPT !.pc = "return"] ELSE ReadHeader(s1)
          [] s.pc = "elem" ->
                IF chunk = <<>> THEN [s EXCEPT !.pc = "return"] ELSE ReadParts(s1)
          [] s.pc = "crlf" ->
                \* read() is False, its value is dropped and the loop of
                \* read_to_crlf goes on to the next recv
                IF chunk = <<>> THEN s ELSE ReadParts(s1)
          [] s.pc = "bulk" -> ReadBulk(s1)

(***************************************************************************)
(* server.Connection.write: sendall of the bytes of a response, by the     *)
(* handler of the connection or by a greenlet of the write pool.  The      *)
(* socket takes the frame at once, or a part of it, sendall then waiting   *)
(* until the socket takes the rest while other greenlets run.              *)
(***************************************************************************)
\* a piece of the frame of the w-th sendall on a socket
Piece(w, task, bytes) == [w |-> w, task |-> task, bytes |-> bytes]

\* where the socket may stop taking the bytes b
SendSplits(b) == {Len(b) \div 2} \ {0}

\* the socket k after sendall(b) has sent what the socket takes at once
sendall(k, b, task) ==
    IF b = <<>> THEN {k}
    ELSE {[k EXCEPT !.begun = @ + 1, !.out = Append(@, Piece(k.begun + 1, task, b))]}
         \cup {[k EXCEPT !.begun = @ + 1,
                         !.out = Append(@, Piece(k.begun + 1, task, SubSeq(b, 1, i))),
                         !.busy = Append(@, Piece(k.begun + 1, task,
                                                  SubSeq(b, i + 1, Len(b))))] :
                  i \in SendSplits(b)}

\* the handler of c is inside connection.write
TaskBusyNever(c) == FALSE

TaskBusy(c) == \E i \in 1..Len(sock[c].busy) : sock[c].busy[i].task

\* a sendall that waited sends the rest of its frame, or fails on a socket
\* that has been closed
Resume(c) ==
    \E i \in 1..Len(sock[c].busy) :
        /\ sock' = [sock EXCEPT ![c] =
                [@ EXCEPT !.busy = SubSeq(@, 1, i - 1) \o SubSeq(@, i + 1, Len(@)),
                          !.out = IF connections[c].open
                                  THEN Append(@, sock[c].busy[i]) ELSE @]]
        /\ last' = NoCommand
        /\ UNCHANGED <<dbs, connections, clock, periodic_task_alive, pubsub, write_pool,
                       stream, lastWrite>>

\* a greenlet of the write pool runs Connection.write
PoolSend ==
    \E i \in 1..Len(write_pool) :
        LET c == write_pool[i].connection
        IN  /\ write_pool' = SubSeq(write_pool, 1, i - 1)
                                \o SubSeq(write_pool, i + 1, Len(write_pool))
            /\ IF connections[c].open
               THEN \E k \in sendall(sock[c], to_resp(write_pool[i].data), FALSE) :
                        sock' = [sock EXCEPT ![c] = k]
               ELSE UNCHANGED sock
            /\ pubsub' = collect(pubsub, connections, write_pool')
            /\ last' = NoCommand
            /\ UNCHANGED <<dbs, connections, clock, periodic_task_alive, stream,
                           lastWrite>>

(***************************************************************************)
(* server.RedisServer.connection_handler over command_stream: the handler  *)
(* takes what recv returns, the generator runs on and, where it yields,    *)
(* the command is processed and its response written.                      *)
(***************************************************************************)
\* socket.recv(2048)
RecvSize == 2048

\* what recv may return: some of the bytes under way, or b'' once the
\* client has closed its side and nothing is under way
Chunks(s) ==
    IF s.wire = <<>> THEN (IF s.eof THEN {<<>>} ELSE {})
    ELSE {SubSeq(s.wire, 1, n) :
            n \in 1..(IF Len(s.wire) < RecvSize THEN Len(s.wire) ELSE RecvSize)}

RecvPoints == {"top", "elem", "crlf", "bulk"}

\* lines 119 to 124 for the command that the generator, now at s, yields
Dispatch(c, s) ==
    \E out \in {process_command(s.parts, c, connections[c], dbs, pubsub, clock)} :
        /\ dbs' = out.dbs
        /\ connections' = [connections EXCEPT ![c] =
                [out.connection EXCEPT !.open = out.result.type # "Raised"]]
        /\ last' = [connection |-> c, cmd_parts |-> s.parts, result |-> out.result]
        /\ write_pool' = write_pool \o out.writes
        /\ pubsub' = collect(out.pubsub, connections', write_pool')
        /\ stream' = [stream EXCEPT ![c] =
                [s EXCEPT !.yields = @ + 1,
                          !.pc = IF out.result.type = "Raised" THEN "raise" ELSE "top",
                          !.exc = IF out.result.type = "Raised" THEN out.result.data
                                  ELSE @]]
        /\ IF out.result.type = "Raised" THEN UNCHANGED sock
           ELSE \E k \in sendall(sock[c], to_resp(out.result), TRUE) :
                    sock' = [sock EXCEPT ![c] = k]
        /\ UNCHANGED <<clock, periodic_task_alive, lastWrite>>

\* lines 125 to 134: the generator has returned or raised, the socket is
\* closed and the handler ends
Exit(c, s) ==
    /\ connections' = [connections EXCEPT ![c].open = FALSE]
    /\ pubsub' = collect(pubsub, connections', write_pool)
    /\ stream' = [stream EXCEPT ![c] = s]
    /\ last' = NoCommand
    /\ UNCHANGED <<dbs, clock, periodic_task_alive, write_pool, sock, lastWrite>>

Serve(c) ==
    /\ connections[c].open
    /\ stream[c].pc \in RecvPoints
    /\ ~TaskBusy(c)
    /\ \E chunk \in Chunks(stream[c]) :
        \E s \in {command_stream(
                    [stream[c] EXCEPT !.wire = SubSeq(@, Len(chunk) + 1, Len(@)),
                                      !.received = @ + Len(chunk)],
                    chunk)} :
            IF s.pc = "yield" THEN Dispatch(c, s)
            ELSE IF s.pc \in {"return", "raise"} THEN Exit(c, s)
            ELSE /\ stream' = [stream EXCEPT ![c] = s]
                 /\ last' = NoCommand
                 /\ UNCHANGED <<dbs, connections, clock, periodic_task_alive, pubsub,
                                write_pool, sock, lastWrite>>

\* the client closes its side of the connection, the bytes of its frames
\* that it has not sent by then never being sent
ClientClose(c) ==
    /\ ~stream[c].eof
    /\ \E n \in 0..Len(stream[c].wire) :
            stream' = [stream EXCEPT ![c].eof = TRUE,
                                     ![c].wire = SubSeq(@, 1, n)]
    /\ last' = NoCommand
    /\ UNCHANGED <<dbs, connections, clock, periodic_task_alive, pubsub, write_pool,
                   sock, lastWrite>>

(***************************************************************************)
(* SpecStream: one client sends the frames of a few commands, which reach  *)
(* recv in chunks of any size, and may close its side.                     *)
(***************************************************************************)
\* the frame a client sends for a command: an Array of Bulk Strings
Frame(cmd_parts) ==
    to_resp(RedisArray([i \in 1..Len(cmd_parts) |-> RedisBulkString(cmd_parts[i])]))

\* the bytes of the frames of the commands cmds[i] on
RECURSIVE Frames(_, _)
Frames(cmds, i) ==
    IF i > Len(cmds) THEN <<>> ELSE Frame(cmds[i]) \o Frames(cmds, i + 1)

Scripts ==
    {<< <<SET, <<"a">>, CRLF>>, <<GET, <<"a">>>> >>,
     << <<SUBSCRIBE, <<"a">>>>, <<PUBLISH, <<"a">>, <<"m">>>> >>}

InitStream ==
    /\ dbs = Storage
    /\ connections = [c \in Conns |-> Connection]
    /\ clock = 0
    /\ periodic_task_alive = TRUE
    /\ last = NoCommand
    /\ lastWrite = EmptyDict
    /\ pubsub = PubSubHandler
    /\ write_pool = <<>>
    /\ \E sent \in Scripts : stream = [c \in Conns |-> Stream(sent, Frames(sent, 1))]
    /\ sock = [c \in Conns |-> Socket]

NextStream ==
    \/ \E c \in Conns : Serve(c)
    \/ \E c \in Conns : ClientClose(c)
    \/ \E c \in Conns : Resume(c)
    \/ PoolSend

SpecStream == InitStream /\ [][NextStream]_vars

(***************************************************************************)
(* What the claims on the stream speak of.                                 *)
(***************************************************************************)
\* the number of bytes of the first k frames of the commands sent
FrameEnd(sent, k) == Len(Frames(SubSeq(sent, 1, k), 1))

\* the number of bytes that recv has returned so far
Received(s) == s.received

\* the number of bytes that the generator has taken out of its buffer
Consumed(s) == Received(s) - Len(s.buffer)

\* the bytes of the pieces of the handler's own writes among pieces[i] on
RECURSIVE TaskBytes(_, _)
TaskBytes(pieces, i) ==
    IF i > Len(pieces) THEN <<>>
    ELSE (IF pieces[i].task THEN pieces[i].bytes ELSE <<>>) \o TaskBytes(pieces, i + 1)

(***************************************************************************)
(* C24: the k-th command that the handler processes is read from the       *)
(* bytes of the k-th frame received; when it is processed every earlier    *)
(* response of the connection is on the socket in full, and its own        *)
(* response goes to the socket after them.                                 *)
(***************************************************************************)
C24_InOrder ==
    [][IsCommandStep =>
        LET c == last'.connection
            k == stream[c].yields + 1
            sent == stream[c].sent
        IN  /\ stream'[c].yields = k
            /\ k <= Len(sent)
            /\ FrameEnd(sent, k - 1) < Consumed(stream'[c])
            /\ Consumed(stream'[c]) <= FrameEnd(sent, k)
            /\ \A i \in 1..Len(sock[c].busy) : ~sock[c].busy[i].task
            /\ last'.result.type # "Raised" =>
                    TaskBytes(sock'[c].out, 1) \o TaskBytes(sock'[c].busy, 1)
                        = TaskBytes(sock[c].out, 1) \o to_resp(last'.result)
      ]_vars

\* the second command of a client has been processed after its first one,
\* whose response the socket took in two pieces
C24_Witness ==
    /\ last.connection = "c1"
    /\ last.cmd_parts = <<GET, <<"a">>>>
    /\ stream["c1"].yields = 2
    /\ Len(sock["c1"].out) >= 3
    /\ TaskBytes(sock["c1"].out, 1) \o TaskBytes(sock["c1"].busy, 1)
            = to_resp(OK) \o to_resp(RedisBulkString(CRLF))

(***************************************************************************)
(* C25: on the socket of a connection the pieces of one frame lie next to  *)
(* each other: between two pieces of the frame of one write there is no    *)
(* piece of the frame of another write, whether the handler of the         *)
(* connection or a greenlet of the write pool writes.                      *)
(***************************************************************************)
C25_FramesContiguous ==
    \A c \in DOMAIN sock :
        LET out == sock[c].out
        IN  \A i, k \in 1..Len(out) :
                i < k /\ out[i].w = out[k].w =>
                    \A j \in i..k : out[j].w = out[i].w

(***************************************************************************)
(* C26: every command that command_stream yields is, part for part and     *)
(* byte for byte, the command whose frame the client sent at that place,   *)
(* however the bytes of the frame are split over the reads, provided the   *)
(* client has sent the frame in full.                                      *)
(***************************************************************************)
C26_RoundTrip ==
    [][IsCommandStep =>
        LET s == stream[last'.connection]
            k == s.yields + 1
        IN  /\ k <= Len(s.sent)
            /\ s.received + Len(s.wire) >= FrameEnd(s.sent, k) =>
                    last'.cmd_parts = s.sent[k]
      ]_vars

(***************************************************************************)
(* C27: the generator runs from one recv to the next without waiting, so   *)
(* a frame that has been received in full is yielded without further       *)
(* bytes from the client exactly when the generator never waits in recv    *)
(* while recv has returned all the bytes of the next frame to yield.       *)
(***************************************************************************)
C27_Streaming ==
    \A c \in DOMAIN stream :
        LET s == stream[c]
        IN  connections[c].open /\ s.pc \in RecvPoints /\ s.yields < Len(s.sent) =>
                Received(s) < FrameEnd(s.sent, s.yields + 1)

(***************************************************************************)
(* C28: at the end of the input the connection task ends.  Wherever the    *)
(* generator waits in recv when recv returns no bytes, it returns, raises  *)
(* or yields, or goes on to a recv with one more part read: it never       *)
(* comes back to the recv where it was, as it was.                         *)
(***************************************************************************)
C28_EofEnds ==
    \A c \in DOMAIN stream :
        connections[c].open /\ stream[c].pc \in RecvPoints /\ <<>> \in Chunks(stream[c]) =>
            LET s == command_stream(stream[c], <<>>)
            IN  \/ s.pc \in {"return", "raise", "yield"}
                \/ Len(s.parts) > Len(stream[c].parts)

(***************************************************************************)
(* C29: in every DB, every key of the TTL lookup map maps to an entry that *)
(* is in the heap, is not tombstoned and carries that key; every entry of  *)
(* the heap that is not tombstoned is the entry that the lookup map has    *)
(* for its key; and the key of such an entry is in the key->value map.     *)
(***************************************************************************)
\* the entries of the heap of db that are not tombstoned
LiveEntries(db) == {e \in db.expiration_pq : e.key # _removed_sentinel}

C29_TTLIndex ==
    \A i \in DOMAIN dbs :
        LET db == dbs[i]
            finder == db._expiration_key_finder
        IN  /\ \A k \in DOMAIN finder :
                  [expires_at |-> finder[k].expires_at, count |-> finder[k].count,
                   key |-> k] \in db.expiration_pq
            /\ \A e \in LiveEntries(db) :
                  /\ e.key \in DOMAIN finder
                  /\ finder[e.key].count = e.count
                  /\ finder[e.key].expires_at = e.expires_at
                  /\ e.key \in DOMAIN db.kv

\* a DB whose heap holds a tombstone and the entry of a key with a TTL
C29_Witness ==
    \E i \in DOMAIN dbs :
        /\ DOMAIN dbs[i]._expiration_key_finder # {}
        /\ LiveEntries(dbs[i]) # {}
        /\ LiveEntries(dbs[i]) # dbs[i].expiration_pq

SubscribeArgs == {<<>>, <<<<"a">>>>, <<<<"b">>>>, <<<<"a">>, <<"b">>>>, <<<<"a">>, <<"a">>>>}

UnsubscribeArgs == {<<>>, <<<<"a">>>>, <<<<"z">>>>, <<<<"b">>, <<"a">>>>}

PatternArgs == {<<>>, <<<<"*">>>>, <<<<"z">>>>}

SubscribeAny(c) ==
    \E args \in SubscribeArgs :
        connection_handler(c, <<SUBSCRIBE>> \o args) /\ UNCHANGED lastWrite

UnsubscribeAny(c) ==
    \E args \in UnsubscribeArgs :
        connection_handler(c, <<UNSUBSCRIBE>> \o args) /\ UNCHANGED lastWrite

PSubscribeAny(c) ==
    \E args \in PatternArgs :
        connection_handler(c, <<PSUBSCRIBE>> \o args) /\ UNCHANGED lastWrite

PUnsubscribeAny(c) ==
    \E args \in PatternArgs :
        connection_handler(c, <<PUNSUBSCRIBE>> \o args) /\ UNCHANGED lastWrite

NextSubs ==
    \/ \E c \in TwoConns : SubscribeAny(c)
    \/ \E c \in TwoConns : UnsubscribeAny(c)
    \/ \E c \in TwoConns : PSubscribeAny(c)
    \/ \E c \in TwoConns : PUnsubscribeAny(c)
    \/ \E c \in TwoConns : Eof(c)

SpecSubs == InitTwo /\ [][NextSubs]_vars

\* the channels and the patterns that indices have for connection c
ChannelsOf(indices, c) ==
    IF c \in DOMAIN indices._connection_channel_map
    THEN indices._connection_channel_map[c] ELSE {}

PatternsOf(indices, c) ==
    IF c \in DOMAIN indices._connection_pattern_channel_map
    THEN indices._connection_pattern_channel_map[c] ELSE {}

\* the names of the first i responses
Named(responses, i) == {responses[j].data[2].data : j \in 1..i}

(***************************************************************************)
(* C31: after any SUBSCRIBE and UNSUBSCRIBE commands of any connections,   *)
(* a connection is in the subscriber set of a channel exactly when the     *)
(* channel is in the connection's channel set; and the count in each       *)
(* response of a SUBSCRIBE or UNSUBSCRIBE is the number of the connection's *)
(* channels plus the number of its patterns when that response was made:   *)
(* with the channels named by the responses so far added, or taken away.   *)
(***************************************************************************)
C31_Consistent ==
    \A c \in DOMAIN connections :
        \A channel \in (DOMAIN pubsub._channel_subscriptions)
                            \cup UNION {ChannelsOf(pubsub, d) : d \in DOMAIN connections} :
            c \in channel_subscriptions(pubsub, channel)
                <=> channel \in ChannelsOf(pubsub, c)

C31_Counts ==
    IsCommandStep /\ StepVerb \in {SUBSCRIBE, UNSUBSCRIBE}
    /\ last'.result.type = "MultipleResponses" =>
        LET responses == last'.result.data
            before == ChannelsOf(pubsub, StepConn)
            patterns == Cardinality(PatternsOf(pubsub, StepConn))
        IN  /\ \A i \in 1..Len(responses) :
                  responses[i].data[3].data =
                      patterns + Cardinality(
                          IF StepVerb = SUBSCRIBE
                          THEN before \cup Named(responses, i)
                          ELSE before \ Named(responses, i))
            /\ Len(responses) > 0 =>
                  responses[Len(responses)].data[3].data = Total(pubsub', StepConn)

C31_Indices == []C31_Consistent /\ [][C31_Counts]_vars

\* an UNSUBSCRIBE of a channel never subscribed, by a connection that has
\* a channel that the other connection has too, and a pattern
C31_Witness ==
    /\ last.cmd_parts = <<UNSUBSCRIBE, <<"z">>>>
    /\ last.result.type = "MultipleResponses"
    /\ last.result.data[1].data[3].data = 2
    /\ channel_subscriptions(pubsub, <<"a">>) = TwoConns
    /\ PatternsOf(pubsub, last.connection) = {<<"*">>}

(***************************************************************************)
(* C32: whatever SUBSCRIBE, UNSUBSCRIBE, PSUBSCRIBE and PUNSUBSCRIBE       *)
(* commands came before, a connection in pubsub mode has at least one      *)
(* channel or pattern, and an UNSUBSCRIBE and a PUNSUBSCRIBE without       *)
(* argument take it back to normal mode.                                   *)
(***************************************************************************)
C32_PubSubHasSubscription ==
    \A c \in DOMAIN connections :
        connections[c].open /\ connections[c].state = "pubsub" =>
            /\ Total(pubsub, c) >= 1
            /\ LET u == process_command(<<UNSUBSCRIBE>>, c, connections[c], dbs,
                                        pubsub, clock)
                   p == process_command(<<PUNSUBSCRIBE>>, c, u.connection, u.dbs,
                                        u.pubsub, clock)
               IN  p.connection.state = "normal"

\* a connection in pubsub mode that an UNSUBSCRIBE left with a pattern only
C32_Witness ==
    /\ last.cmd_parts = <<UNSUBSCRIBE>>
    /\ last.result.type = "MultipleResponses"
    /\ connections[last.connection].open
    /\ connections[last.connection].state = "pubsub"
    /\ ChannelsOf(pubsub, last.connection) = {}
    /\ Total(pubsub, last.connection) = 1

====
